---- MODULE Spec2Model ----
(***************************************************************************)
(* Model of the benchmark driver (experiments/scripts/benchmark_common.py) *)
(* and of the disaggregated proxy                                          *)
(* (experiments/scripts/disagg_proxy_server.py).                           *)
(*                                                                         *)
(* Both programs run on a single asyncio event loop: a coroutine runs      *)
(* without interruption from one await to the next, so every action below  *)
(* is the code between two suspension points of one coroutine.             *)
(***************************************************************************)
EXTENDS Integers, Sequences, FiniteSets, TLC

(***************************************************************************)
(* Bounds of the model.                                                    *)
(***************************************************************************)
\* num_iterations: the number of rounds of run_concurrent_benchmark
NumIterations == 2
\* concurrency: tasks per round and permits of the semaphore
Concurrency == 2
\* request_timeout, in clock ticks of the model; the warm-up, whose calls
\* have the default request_timeout and never overlap a measured call, has
\* ticks of its own length
RequestTimeout == 1
\* the most content tokens one response carries
MaxTokens == 1
\* inbound requests the proxy handles
NumRequests == 1
\* the most lines backend stage 2 streams for one request
MaxChunks == 2
\* the last reading of the clock in a measured call of measure_streaming
MaxClock == 3
\* the most content tokens of a measured call
MaxTimes == 2
\* the largest --num-iterations of a reported run
MaxRunIterations == 2
\* the most values of a latency sample set
MaxSamples == 10
\* --warmup-iterations: the requests of run_warmup
WarmupCount == 2
\* the last reading of the clock while several proxied requests run
SharedClock == 1

VARIABLES
    \* ---- run_concurrent_benchmark ----
    dpc,          \* position of the driver coroutine
    round_num,    \* the loop variable of "for round_num in range(num_iterations)"
    ncreated,     \* tasks created so far, over all rounds
    semaphore,    \* asyncio.Semaphore._value: the free permits
    all_results,  \* the list all_results
    successes,    \* the round's local counter successes
    errors,       \* the round's local counter errors
    \* ---- one measure_with_semaphore task per task id ----
    tpc,          \* position of the task coroutine
    elapsed,      \* ticks since the task's session.post started its timer
    waited,       \* ticks the task has spent blocked in semaphore.acquire()
    ntok,         \* len(tokens)
    rec,          \* what the task returned (or that it raised)
    \* ---- DisaggregatedProxyServerV2 ----
    app,          \* the aiohttp application: "init", "running" or "stopped"
    session,      \* self.session: "none" (None), "open" or "closed"
    req,          \* per inbound request: the locals of handle_completion, what
                  \* went to the backends and what went to the caller
    \* ---- one call of measure_streaming, with its clock ----
    now,          \* time.perf_counter()
    mpc,          \* position of the call
    request_start,\* the local request_start
    token_times,  \* the local token_times
    frame,        \* the line the loop body last ran on
    result,       \* what the call returned
    \* ---- run_benchmark, from the measurement to the output ----
    args,         \* args.num_iterations and args.concurrency
    raw_results,  \* the list raw_results
    failed,       \* measured requests that returned an error record
    report,       \* what run_benchmark printed and computed
    rpc,          \* where run_benchmark is after the measured requests
    output_file,  \* what the file args.output holds
    sink,         \* how the call of log_to_mlflow went
    run_id,       \* what log_to_mlflow returned
    \* ---- compute_percentiles and analyze_bimodality ----
    values,       \* the argument values, a list of latencies
    percentiles,  \* what compute_percentiles(values) returned
    bimodality    \* what analyze_bimodality(values) returned

dvars == <<dpc, round_num, ncreated, semaphore, all_results, successes, errors,
           tpc, elapsed, waited, ntok, rec>>

pvars == <<app, session, req>>

mvars == <<now, mpc, request_start, token_times, frame, result>>

rvars == <<args, raw_results, failed, report, rpc, output_file, sink, run_id>>

avars == <<values, percentiles, bimodality>>

svars == <<mvars, rvars, avars>>

vars == <<dvars, pvars, svars>>

(***************************************************************************)
(* Tasks.  Task ids number the tasks in creation order over the whole run, *)
(* so that tasks of different rounds are different tasks.                  *)
(***************************************************************************)
TaskIds == 1..(NumIterations * Concurrency)

RoundOf(t) == (t - 1) \div Concurrency

RoundTasks(r) == {t \in TaskIds : RoundOf(t) = r}

\* the calls of run_warmup, numbered after the measured requests
WarmupIds ==
    (NumIterations * Concurrency + 1)..(NumIterations * Concurrency + WarmupCount)

\* the calls of run_serial_benchmark: measured request i + 1 is call i + 1
SerialIds == 1..NumIterations

\* what a task can return: one success record or one of the error records
SuccessRec == "success"
ErrHTTP == "error: HTTP status"
ErrTimeout == "error: Request timeout"
ErrStr == "error: str(e)"
ErrNoTokens == "error: No tokens generated"
Raised == "raised"
NoRec == "none"

ErrorRecs == {ErrHTTP, ErrTimeout, ErrStr, ErrNoTokens}

\* "error" in r
HasError(r) == r \in ErrorRecs

\* the exceptions the body of measure_streaming's try block can raise
Exceptions == {"TimeoutError", "ClientError", "UnicodeDecodeError", "KeyError"}

\* the except clauses of measure_streaming: every exception becomes a record
CatchOnlyTransport(exc) ==
    IF exc = "TimeoutError" THEN ErrTimeout
    ELSE IF exc = "ClientError" THEN ErrStr
    ELSE Raised

Catch(exc) ==
    IF exc = "TimeoutError" THEN ErrTimeout
    ELSE ErrStr

\* the end of measure_streaming, after the response has been read
FinishRecord(n) ==
    IF n = 0 THEN ErrNoTokens ELSE SuccessRec

\* HTTP statuses a backend answers with
Statuses == {200, 500}

\* the lines of an event stream, by what measure_streaming does with them
Frames == {"token", "empty_text", "blank", "bad_json", "bad_struct",
           "bad_utf8", "done", "eof", "transport_error"}

InIO(t) == tpc[t] \in {"post", "read"}

\* the driver is suspended in an await: only then can a task run
DriverSuspended ==
    dpc \in {"gather", "sleep", "warmup_await", "warmup_sleep",
             "serial_await", "serial_sleep"}

\* the running calls were made through measure_with_semaphore, which holds
\* a permit around measure_streaming; run_warmup and run_serial_benchmark
\* call measure_streaming itself
ViaSemaphore == dpc \in {"create", "gather", "sleep"}

(***************************************************************************)
(* Initial state: run_concurrent_benchmark has created its semaphore.      *)
(***************************************************************************)
DriverInitOf(ids, permits, pc) ==
    /\ dpc = pc
    /\ round_num = 0
    /\ ncreated = 0
    /\ semaphore = permits
    /\ all_results = <<>>
    /\ successes = 0
    /\ errors = 0
    /\ tpc = [t \in ids |-> "none"]
    /\ elapsed = [t \in ids |-> 0]
    /\ waited = [t \in ids |-> 0]
    /\ ntok = [t \in ids |-> 0]
    /\ rec = [t \in ids |-> NoRec]

DriverInitOneShort(permits) == DriverInitOf(TaskIds, permits - 1, "create")

DriverInit(permits) == DriverInitOf(TaskIds, permits, "create")

ReqIds == 1..NumRequests

\* a JSON body, by the fields the proxy reads or rewrites; prompt stands for
\* the fields it only copies (model, prompt, temperature)
Absent == "absent"

NoBody == [prompt |-> 0, max_tokens |-> 0, stream |-> Absent, kv_transfer_params |-> Absent]

\* the inbound bodies: {model, prompt, max_tokens, temperature, stream}
InboundBodies(q) ==
    [prompt : {q}, max_tokens : {1, 16}, stream : {Absent, "false", "true"},
     kv_transfer_params : {Absent}]

\* the kv_transfer_params of a stage 1 response: none, an empty object, a token
KVValues == {Absent, "empty", "tokA", "tokB"}

\* the lines stage 2 streams
ChunkValues == {"c1", "c2"}

\* the state of a request that has not arrived
NewRequest ==
    [pc |-> "idle", inbound_ok |-> TRUE, inbound |-> NoBody, request_data |-> NoBody,
     s1calls |-> 0, s1body |-> NoBody, s1status |-> 0, prefill_kv |-> Absent,
     extracted |-> FALSE, kv_transfer_params |-> Absent,
     s2calls |-> 0, s2body |-> NoBody, s2status |-> 0,
     received |-> <<>>, collected |-> <<>>, written |-> <<>>,
     status |-> 0, nresp |-> 0, returned |-> "none", fault |-> "none",
     t0 |-> 0, t1 |-> 0, t2 |-> 0, headers |-> {}, sent_headers |-> {},
     final_result |-> "unset"]

\* DisaggregatedProxyServerV2.__init__: self.session = None
ProxyInitOf(ids) ==
    /\ app = "init"
    /\ session = "none"
    /\ req = [q \in ids |-> NewRequest]

ProxyInit == ProxyInitOf(ReqIds)

\* no call of measure_streaming is being measured
NoResult ==
    [kind |-> NoRec, ttft_ms |-> 0, e2e_latency_ms |-> 0,
     tpot_ms |-> [num |-> 0, den |-> 1], completion_tokens |-> 0,
     request_start |-> 0]

MeasureIdle ==
    /\ now = 0
    /\ mpc = "idle"
    /\ request_start = 0
    /\ token_times = <<>>
    /\ frame = "none"
    /\ result = NoResult

\* run_benchmark has not reported
NoReport ==
    [kind |-> "none", warning |-> FALSE, total_requests |-> 0,
     throughput_rps |-> [num |-> 0, den |-> 1]]

\* run_benchmark before "Save JSON": no file, log_to_mlflow not called
NothingSaved ==
    /\ rpc = "measure"
    /\ output_file = "none"
    /\ sink = "not_called"
    /\ run_id = "unset"

ReportIdle ==
    /\ args = [num_iterations |-> 1, concurrency |-> 1]
    /\ raw_results = <<>>
    /\ failed = 0
    /\ report = NoReport
    /\ NothingSaved

\* no function of the aggregator has been called
NotCalled == [called |-> FALSE]

AggregatorIdle ==
    /\ values = <<>>
    /\ percentiles = NotCalled
    /\ bimodality = NotCalled

StatsIdle == MeasureIdle /\ ReportIdle /\ AggregatorIdle

\* semaphore = asyncio.Semaphore(concurrency)
Init == DriverInit(Concurrency) /\ ProxyInit /\ StatsIdle

(***************************************************************************)
(* measure_with_semaphore / measure_streaming, one task.                   *)
(***************************************************************************)
\* the task returns (or raises): "async with semaphore" releases the permit,
\* the request's timer is cancelled, and of the locals only what the returned
\* record holds (completion_tokens, in a success record) lives on
ResolveLeakOnTimeout(t, r) ==
    /\ tpc' = [tpc EXCEPT ![t] = "resolved"]
    /\ rec' = [rec EXCEPT ![t] = r]
    /\ semaphore' = IF ViaSemaphore /\ r # ErrTimeout
                    THEN semaphore + 1 ELSE semaphore
    /\ elapsed' = [elapsed EXCEPT ![t] = 0]
    /\ ntok' = [ntok EXCEPT ![t] = IF r = SuccessRec THEN @ ELSE 0]

Resolve(t, r) ==
    /\ tpc' = [tpc EXCEPT ![t] = "resolved"]
    /\ rec' = [rec EXCEPT ![t] = r]
    /\ semaphore' = IF ViaSemaphore THEN semaphore + 1 ELSE semaphore
    /\ elapsed' = [elapsed EXCEPT ![t] = 0]
    /\ ntok' = [ntok EXCEPT ![t] = IF r = SuccessRec THEN @ ELSE 0]

\* first step of the task: semaphore.acquire(); with a free permit it does not
\* suspend and the task goes on to session.post, which starts the timer
Start(t) ==
    /\ DriverSuspended
    /\ tpc[t] = "created"
    /\ IF semaphore > 0
       THEN /\ semaphore' = semaphore - 1
            /\ tpc' = [tpc EXCEPT ![t] = "post"]
       ELSE /\ tpc' = [tpc EXCEPT ![t] = "gate"]
            /\ UNCHANGED semaphore
    /\ UNCHANGED <<dpc, round_num, ncreated, all_results, successes, errors,
                   elapsed, waited, ntok, rec>>
    /\ UNCHANGED <<pvars, svars>>

\* a task blocked in acquire() is woken when a permit is free
Wake(t) ==
    /\ DriverSuspended
    /\ tpc[t] = "gate"
    /\ semaphore > 0
    /\ semaphore' = semaphore - 1
    /\ tpc' = [tpc EXCEPT ![t] = "post"]
    /\ UNCHANGED <<dpc, round_num, ncreated, all_results, successes, errors,
                   elapsed, waited, ntok, rec>>
    /\ UNCHANGED <<pvars, svars>>

\* "async with session.post(...) as response": the request fails (no
\* connection, a transport error), or the response's status line arrives;
\* a status other than 200 returns the HTTP error record
Post(t) ==
    /\ DriverSuspended
    /\ tpc[t] = "post"
    /\ \/ Resolve(t, Catch("ClientError"))
       \/ \E s \in Statuses :
             IF s # 200
             THEN Resolve(t, ErrHTTP)
             ELSE /\ tpc' = [tpc EXCEPT ![t] = "read"]
                  /\ UNCHANGED <<rec, semaphore, elapsed, ntok>>
    /\ UNCHANGED <<dpc, round_num, ncreated, all_results, successes, errors,
                   waited>>
    /\ UNCHANGED <<pvars, svars>>

\* one iteration of "async for line in response.content", or its end
ReadFrame(t) ==
    /\ DriverSuspended
    /\ tpc[t] = "read"
    /\ \E f \in Frames :
          CASE f = "token" ->
                  /\ ntok[t] < MaxTokens
                  /\ ntok' = [ntok EXCEPT ![t] = @ + 1]
                  /\ UNCHANGED <<tpc, rec, semaphore, elapsed>>
            [] f \in {"empty_text", "blank", "bad_json"} ->
                  UNCHANGED <<tpc, rec, semaphore, ntok, elapsed>>
            [] f = "bad_utf8" ->
                  Resolve(t, Catch("UnicodeDecodeError"))
            [] f = "bad_struct" ->
                  Resolve(t, Catch("KeyError"))
            [] f = "transport_error" ->
                  Resolve(t, Catch("ClientError"))
            [] f \in {"done", "eof"} ->
                  Resolve(t, FinishRecord(ntok[t]))
    /\ UNCHANGED <<dpc, round_num, ncreated, all_results, successes, errors,
                   waited>>
    /\ UNCHANGED <<pvars, svars>>

\* aiohttp.ClientTimeout(total=request_timeout) expires during the request
TimeoutFires(t) ==
    /\ DriverSuspended
    /\ InIO(t)
    /\ elapsed[t] >= RequestTimeout
    /\ Resolve(t, Catch("TimeoutError"))
    /\ UNCHANGED <<dpc, round_num, ncreated, all_results, successes, errors,
                   waited>>
    /\ UNCHANGED <<pvars, svars>>

\* time passes: one tick for every task that is waiting for something
Tick ==
    /\ \E t \in DOMAIN tpc : InIO(t) \/ tpc[t] = "gate"
    /\ \A t \in DOMAIN tpc : InIO(t) => elapsed[t] < RequestTimeout
    /\ elapsed' = [t \in DOMAIN tpc |-> IF InIO(t) THEN elapsed[t] + 1 ELSE elapsed[t]]
    /\ waited' = [t \in DOMAIN tpc |->
                    IF tpc[t] = "gate" /\ waited[t] <= RequestTimeout
                    THEN waited[t] + 1 ELSE waited[t]]
    /\ UNCHANGED <<dpc, round_num, ncreated, semaphore, all_results, successes,
                   errors, tpc, ntok, rec>>
    /\ UNCHANGED <<pvars, svars>>

(***************************************************************************)
(* run_concurrent_benchmark, the driver coroutine.                         *)
(***************************************************************************)
\* asyncio.create_task(measure_with_semaphore(...)); tasks.append(task).
\* The creation loop has no await: the new tasks start once the driver is
\* suspended in gather.
CreateTask ==
    /\ dpc = "create"
    /\ ncreated < (round_num + 1) * Concurrency
    /\ ncreated' = ncreated + 1
    /\ tpc' = [tpc EXCEPT ![ncreated + 1] = "created"]
    /\ dpc' = IF ncreated + 1 = (round_num + 1) * Concurrency
              THEN "gather" ELSE "create"
    /\ UNCHANGED <<round_num, semaphore, all_results, successes, errors,
                   elapsed, waited, ntok, rec>>
    /\ UNCHANGED <<pvars, svars>>

\* asyncio.gather(*tasks) returns when every task of the round is done
GatherNoWait(r) == TRUE

GatherFirst(r) == \E t \in RoundTasks(r) : tpc[t] = "resolved"

GatherReturns(r) == \A t \in RoundTasks(r) : tpc[t] = "resolved"

\* asyncio.gather(*tasks) raises as soon as one task has raised
GatherRaises(r) == \E t \in RoundTasks(r) : rec[t] = Raised

\* results: what the tasks of round r returned, in creation order
RECURSIVE ResultsFrom(_, _)
ResultsFrom(t, last) ==
    IF t > last THEN <<>>
    ELSE <<rec[t]>> \o ResultsFrom(t + 1, last)

Results(r) == ResultsFrom(r * Concurrency + 1, (r + 1) * Concurrency)

\* the loop "for r in results": what is appended to all_results
KeptAll(r) == TRUE

Kept(r) == ~HasError(r)

\* results = await asyncio.gather(*tasks), then the counting loop and the
\* print, up to "await asyncio.sleep(1)"; the round's task and result
\* lists are not used again
Gather ==
    /\ dpc = "gather"
    /\ GatherRaises(round_num) \/ GatherReturns(round_num)
    /\ IF GatherRaises(round_num)
       THEN /\ dpc' = "aborted"
            /\ UNCHANGED <<all_results, successes, errors, rec, ntok, waited>>
       ELSE /\ dpc' = "sleep"
            /\ all_results' = all_results \o SelectSeq(Results(round_num), Kept)
            /\ successes' = Len(SelectSeq(Results(round_num), Kept))
            /\ errors' = Len(SelectSeq(Results(round_num), HasError))
            /\ rec' = [t \in DOMAIN tpc |->
                         IF t \in RoundTasks(round_num) THEN NoRec ELSE rec[t]]
            /\ ntok' = [t \in DOMAIN tpc |->
                         IF t \in RoundTasks(round_num) THEN 0 ELSE ntok[t]]
            /\ waited' = [t \in DOMAIN tpc |->
                         IF t \in RoundTasks(round_num) THEN 0 ELSE waited[t]]
    /\ UNCHANGED <<round_num, ncreated, semaphore, tpc, elapsed>>
    /\ UNCHANGED <<pvars, svars>>

\* asyncio.sleep(1) is over: the next round, or "return all_results"
SleepStopOnErrors ==
    /\ dpc = "sleep"
    /\ round_num' = round_num + 1
    /\ dpc' = IF round_num + 1 < NumIterations /\ errors = 0 THEN "create" ELSE "done"
    /\ UNCHANGED <<ncreated, semaphore, all_results, successes, errors,
                   tpc, elapsed, waited, ntok, rec>>
    /\ UNCHANGED <<pvars, svars>>

Sleep ==
    /\ dpc = "sleep"
    /\ round_num' = round_num + 1
    /\ dpc' = IF round_num + 1 < NumIterations THEN "create" ELSE "done"
    /\ UNCHANGED <<ncreated, semaphore, all_results, successes, errors,
                   tpc, elapsed, waited, ntok, rec>>
    /\ UNCHANGED <<pvars, svars>>

TaskStep(t) ==
    \/ Start(t)
    \/ Post(t)
    \/ ReadFrame(t)
    \/ TimeoutFires(t)

Next ==
    \/ CreateTask
    \/ Gather
    \/ Sleep
    \/ Tick
    \/ \E t \in TaskIds : TaskStep(t)

Spec == Init /\ [][Next]_vars

(***************************************************************************)
(* The same run with task cancellation.  A cancelled task gets             *)
(* CancelledError at the await it is suspended in; no except clause of     *)
(* measure_streaming catches it, "async with semaphore" gives the permit   *)
(* back on the way out, and the task ends without a record.  A task        *)
(* cancelled before its first step never enters "async with".              *)
(***************************************************************************)
CancelTask(t) ==
    /\ DriverSuspended
    /\ tpc[t] \in {"created", "post", "read"}
    /\ IF InIO(t)
       THEN Resolve(t, Raised)
       ELSE /\ tpc' = [tpc EXCEPT ![t] = "resolved"]
            /\ rec' = [rec EXCEPT ![t] = Raised]
            /\ UNCHANGED <<semaphore, elapsed, ntok>>
    /\ UNCHANGED <<dpc, round_num, ncreated, all_results, successes, errors,
                   waited>>
    /\ UNCHANGED <<pvars, svars>>

NextCancel ==
    \/ CreateTask
    \/ Gather
    \/ Sleep
    \/ Tick
    \/ \E t \in TaskIds : TaskStep(t)
    \/ \E t \in TaskIds : CancelTask(t)

SpecCancel == Init /\ [][NextCancel]_vars

(***************************************************************************)
(* measure_with_semaphore behind a gate with fewer permits than tasks: the *)
(* same driver and tasks, sharing a semaphore of Concurrency - 1 permits,  *)
(* so that a task can block in acquire().                                  *)
(***************************************************************************)
GatePermits == Concurrency - 1

InitGate == DriverInit(GatePermits) /\ ProxyInit /\ StatsIdle

NextGate ==
    \/ CreateTask
    \/ Gather
    \/ Sleep
    \/ Tick
    \/ \E t \in TaskIds : TaskStep(t)
    \/ \E t \in TaskIds : Wake(t)

SpecGate == InitGate /\ [][NextGate]_vars

(***************************************************************************)
(* The requests of run_benchmark: run_warmup, then run_serial_benchmark    *)
(* when args.concurrency is 1 and run_concurrent_benchmark when it is      *)
(* more.  run_warmup and run_serial_benchmark await measure_streaming      *)
(* itself, one call per pass of their loop; the loop index is round_num.   *)
(***************************************************************************)
\* the call of pass i of run_warmup
WarmupCall(i) == NumIterations * Concurrency + i + 1

\* the call of pass i of run_serial_benchmark
SerialCall(i) == i + 1

\* "r = await measure_streaming(...)": the driver goes on when the call it
\* awaits has returned or raised
CallReturnedAny(t) == TRUE

CallReturned(t) == tpc[t] = "resolved"

\* run_warmup is over: run_benchmark starts the measured requests
AfterWarmup == IF args.concurrency > 1 THEN "create" ELSE "serial"

\* the head of run_warmup's loop, to the first await of measure_streaming
WarmupIssue ==
    /\ dpc = "warmup"
    /\ tpc' = [tpc EXCEPT ![WarmupCall(round_num)] = "post"]
    /\ dpc' = "warmup_await"
    /\ UNCHANGED <<round_num, ncreated, semaphore, all_results, successes,
                   errors, elapsed, waited, ntok, rec>>
    /\ UNCHANGED <<pvars, svars>>

\* the awaited warm-up call is over: its record is printed and dropped, up
\* to "await asyncio.sleep(0.5)"; an exception leaves run_warmup
WarmupCollectCounted ==
    /\ dpc = "warmup_await"
    /\ CallReturned(WarmupCall(round_num))
    /\ dpc' = IF rec[WarmupCall(round_num)] = Raised
              THEN "aborted" ELSE "warmup_sleep"
    /\ all_results' = IF rec[WarmupCall(round_num)] = SuccessRec
                      THEN Append(all_results, SuccessRec) ELSE all_results
    /\ rec' = [rec EXCEPT ![WarmupCall(round_num)] = NoRec]
    /\ ntok' = [ntok EXCEPT ![WarmupCall(round_num)] = 0]
    /\ UNCHANGED <<round_num, ncreated, semaphore, successes,
                   errors, tpc, elapsed, waited>>
    /\ UNCHANGED <<pvars, svars>>

WarmupCollect ==
    /\ dpc = "warmup_await"
    /\ CallReturned(WarmupCall(round_num))
    /\ dpc' = IF rec[WarmupCall(round_num)] = Raised
              THEN "aborted" ELSE "warmup_sleep"
    /\ rec' = [rec EXCEPT ![WarmupCall(round_num)] = NoRec]
    /\ ntok' = [ntok EXCEPT ![WarmupCall(round_num)] = 0]
    /\ UNCHANGED <<round_num, ncreated, semaphore, all_results, successes,
                   errors, tpc, elapsed, waited>>
    /\ UNCHANGED <<pvars, svars>>

\* asyncio.sleep(0.5) of run_warmup is over: the next pass, or the return
WarmupSleep ==
    /\ dpc = "warmup_sleep"
    /\ IF round_num + 1 < WarmupCount
       THEN /\ round_num' = round_num + 1
            /\ dpc' = "warmup"
       ELSE /\ round_num' = 0
            /\ dpc' = AfterWarmup
    /\ UNCHANGED <<ncreated, semaphore, all_results, successes, errors,
                   tpc, elapsed, waited, ntok, rec>>
    /\ UNCHANGED <<pvars, svars>>

\* the head of run_serial_benchmark's loop, to the first await of
\* measure_streaming
SerialIssue ==
    /\ dpc = "serial"
    /\ ncreated' = ncreated + 1
    /\ tpc' = [tpc EXCEPT ![SerialCall(round_num)] = "post"]
    /\ dpc' = "serial_await"
    /\ UNCHANGED <<round_num, semaphore, all_results, successes, errors,
                   elapsed, waited, ntok, rec>>
    /\ UNCHANGED <<pvars, svars>>

\* the loop of run_serial_benchmark after pass i: the next pass, or
\* "return all_results"
SerialNext(i) == IF i + 1 < NumIterations THEN "serial" ELSE "done"

\* the awaited call is over: an error record is printed and the loop
\* continues, a success record is appended and the driver sleeps; an
\* exception leaves run_serial_benchmark
SerialCollect ==
    /\ dpc = "serial_await"
    /\ CallReturned(SerialCall(round_num))
    /\ LET r == rec[SerialCall(round_num)]
       IN IF r = Raised
          THEN /\ dpc' = "aborted"
               /\ UNCHANGED <<round_num, all_results>>
          ELSE IF HasError(r)
          THEN /\ dpc' = SerialNext(round_num)
               /\ round_num' = round_num + 1
               /\ UNCHANGED all_results
          ELSE /\ dpc' = "serial_sleep"
               /\ all_results' = Append(all_results, r)
               /\ UNCHANGED round_num
    /\ UNCHANGED <<ncreated, semaphore, successes, errors,
                   tpc, elapsed, waited, ntok, rec>>
    /\ UNCHANGED <<pvars, svars>>

\* asyncio.sleep(0.5) of run_serial_benchmark is over
SerialSleep ==
    /\ dpc = "serial_sleep"
    /\ dpc' = SerialNext(round_num)
    /\ round_num' = round_num + 1
    /\ UNCHANGED <<ncreated, semaphore, all_results, successes, errors,
                   tpc, elapsed, waited, ntok, rec>>
    /\ UNCHANGED <<pvars, svars>>

\* args.concurrency of the run: serial, or Concurrency at a time
InitRun ==
    /\ DriverInitOf(TaskIds \cup WarmupIds, Concurrency, "warmup")
    /\ ProxyInit
    /\ MeasureIdle
    /\ args \in [num_iterations : {NumIterations},
                  concurrency : {1, Concurrency}]
    /\ raw_results = <<>>
    /\ failed = 0
    /\ report = NoReport
    /\ NothingSaved
    /\ AggregatorIdle

NextRun ==
    \/ WarmupIssue
    \/ WarmupCollect
    \/ WarmupSleep
    \/ SerialIssue
    \/ SerialCollect
    \/ SerialSleep
    \/ CreateTask
    \/ Gather
    \/ Sleep
    \/ Tick
    \/ \E t \in TaskIds \cup WarmupIds : TaskStep(t)

SpecRun == InitRun /\ [][NextRun]_vars

(***************************************************************************)
(* One call measure_streaming(session, url, payload) with the default      *)
(* request_timeout of 600 s, as run_warmup makes it, and with the readings *)
(* of time.perf_counter() it takes.  The clock is read in whole seconds up *)
(* to MaxClock, so the deadline is never reached.  A quotient is kept as   *)
(* the pair of its numerator and its denominator.                          *)
(***************************************************************************)
\* "x * 1000": seconds to milliseconds
MsPerSecond == 1000

\* max(len(tokens) - 1, 1)
Max(a, b) == IF a >= b THEN a ELSE b

\* a record {"error": ...}
ErrorResult(e) == [NoResult EXCEPT !.kind = e]

\* from "end_time = time.perf_counter()" to "return result"
MeasureResultUnchecked(start, times, end_time) ==
    [kind |-> SuccessRec,
     ttft_ms |-> 0,
     e2e_latency_ms |-> (end_time - start) * MsPerSecond,
     tpot_ms |-> [num |-> (end_time - start) * MsPerSecond,
                  den |-> Max(Len(times) - 1, 1)],
     completion_tokens |-> Len(times),
     request_start |-> start]

MeasureResultDecodeSpan(start, times, end_time) ==
    IF times = <<>>
    THEN ErrorResult(ErrNoTokens)
    ELSE LET ttft == times[1] - start
             e2e_latency == times[Len(times)] - times[1]
             tpot == [num |-> e2e_latency, den |-> Max(Len(times) - 1, 1)]
         IN [kind |-> SuccessRec,
             ttft_ms |-> ttft * MsPerSecond,
             e2e_latency_ms |-> e2e_latency * MsPerSecond,
             tpot_ms |-> [num |-> tpot.num * MsPerSecond, den |-> tpot.den],
             completion_tokens |-> Len(times),
             request_start |-> start]

MeasureResult(start, times, end_time) ==
    IF times = <<>>
    THEN ErrorResult(ErrNoTokens)
    ELSE LET ttft == times[1] - start
             e2e_latency == end_time - start
             tpot == [num |-> e2e_latency - ttft,
                      den |-> Max(Len(times) - 1, 1)]
         IN [kind |-> SuccessRec,
             ttft_ms |-> ttft * MsPerSecond,
             e2e_latency_ms |-> e2e_latency * MsPerSecond,
             tpot_ms |-> [num |-> tpot.num * MsPerSecond, den |-> tpot.den],
             completion_tokens |-> Len(times),
             request_start |-> start]

\* the call starts: request_start = time.perf_counter(), then session.post
MeasureStart ==
    /\ mpc = "idle"
    /\ mpc' = "post"
    /\ request_start' = now
    /\ UNCHANGED <<now, token_times, frame, result>>
    /\ UNCHANGED <<dvars, pvars, rvars, avars>>

\* time passes while the call waits for the response or for its next line
MeasureTick ==
    /\ mpc \in {"post", "read"}
    /\ now < MaxClock
    /\ now' = now + 1
    /\ UNCHANGED <<mpc, request_start, token_times, frame, result>>
    /\ UNCHANGED <<dvars, pvars, rvars, avars>>

\* "async with session.post(...) as response" and the check of the status
MeasurePost ==
    /\ mpc = "post"
    /\ \/ /\ mpc' = "returned"
          /\ result' = ErrorResult(Catch("ClientError"))
       \/ \E s \in Statuses :
             IF s # 200
             THEN /\ mpc' = "returned"
                  /\ result' = ErrorResult(ErrHTTP)
             ELSE /\ mpc' = "read"
                  /\ UNCHANGED result
    /\ UNCHANGED <<now, request_start, token_times, frame>>
    /\ UNCHANGED <<dvars, pvars, rvars, avars>>

\* one iteration of "async for line in response.content", or the end of the
\* stream, with everything up to the return
MeasureFrame ==
    /\ mpc = "read"
    /\ \E f \in Frames :
          /\ frame' = f
          /\ CASE f = "token" ->
                    /\ Len(token_times) < MaxTimes
                    /\ token_times' = Append(token_times, now)
                    /\ UNCHANGED <<mpc, result>>
              [] f \in {"empty_text", "blank", "bad_json"} ->
                    UNCHANGED <<mpc, token_times, result>>
              [] f = "bad_utf8" ->
                    /\ mpc' = "returned"
                    /\ result' = ErrorResult(Catch("UnicodeDecodeError"))
                    /\ UNCHANGED token_times
              [] f = "bad_struct" ->
                    /\ mpc' = "returned"
                    /\ result' = ErrorResult(Catch("KeyError"))
                    /\ UNCHANGED token_times
              [] f = "transport_error" ->
                    /\ mpc' = "returned"
                    /\ result' = ErrorResult(Catch("ClientError"))
                    /\ UNCHANGED token_times
              [] f \in {"done", "eof"} ->
                    /\ mpc' = "returned"
                    /\ result' = MeasureResult(request_start, token_times, now)
                    /\ UNCHANGED token_times
    /\ UNCHANGED <<now, request_start>>
    /\ UNCHANGED <<dvars, pvars, rvars, avars>>

NextMeasure ==
    \/ MeasureStart
    \/ MeasureTick
    \/ MeasurePost
    \/ MeasureFrame

\* the call can start at any reading of the clock
InitMeasure ==
    /\ DriverInit(Concurrency)
    /\ ProxyInit
    /\ now \in 0..1
    /\ mpc = "idle"
    /\ request_start = 0
    /\ token_times = <<>>
    /\ frame = "none"
    /\ result = NoResult
    /\ ReportIdle
    /\ AggregatorIdle

SpecMeasure == InitMeasure /\ [][NextMeasure]_vars

(***************************************************************************)
(* run_benchmark from the end of the warm-up: the measurement, of which    *)
(* only what each request returned matters here, the error-rate warning    *)
(* and the throughput.  Times are in whole seconds.                        *)
(***************************************************************************)
\* the request_start and the end-to-end latency of a success record
Starts == {0, 1}

Latencies == {0, 1, 2}

\* the success records measure_streaming can return, by the two fields the
\* throughput is computed from
SuccessRecords ==
    [request_start : Starts,
     e2e_latency_ms : {l * MsPerSecond : l \in Latencies}]

\* args.concurrency: 1 runs run_serial_benchmark, more runs
\* run_concurrent_benchmark
RunConcurrencies == {1, 2}

\* total_expected = num_iterations * (concurrency if concurrency > 1 else 1)
TotalExpected(a) ==
    a.num_iterations * (IF a.concurrency > 1 THEN a.concurrency ELSE 1)

\* min(r["request_start"] for r in raw_results)
RECURSIVE FirstStart(_)
FirstStart(rs) ==
    IF Len(rs) = 1 THEN rs[1].request_start
    ELSE LET m == FirstStart(Tail(rs))
         IN IF rs[1].request_start < m THEN rs[1].request_start ELSE m

\* max(r["request_start"] + r["e2e_latency_ms"] / 1000 for r in raw_results)
RECURSIVE LastEnd(_)
LastEnd(rs) ==
    LET e == rs[1].request_start + rs[1].e2e_latency_ms \div MsPerSecond
    IN IF Len(rs) = 1 THEN e
       ELSE LET m == LastEnd(Tail(rs))
            IN IF e > m THEN e ELSE m

\* sum of the records' latencies
RECURSIVE SumLatency(_)
SumLatency(rs) ==
    IF rs = <<>> THEN 0
    ELSE rs[1].e2e_latency_ms \div MsPerSecond + SumLatency(Tail(rs))

\* total_wall_time = last_end - first_start
WallTimeSummed(rs) == SumLatency(rs)

WallTime(rs) == LastEnd(rs) - FirstStart(rs)

\* throughput_rps = total_requests / total_wall_time if total_wall_time > 0
\* else 0
Throughput(rs) ==
    IF WallTime(rs) > 0
    THEN [num |-> Len(rs), den |-> WallTime(rs)]
    ELSE [num |-> 0, den |-> 1]

\* "if error_rate > 0.1", with error_rate = (total_expected -
\* successful_requests) / total_expected
HighErrorRate(expected, successful) ==
    expected > 0 /\ 10 * (expected - successful) > expected

\* the arguments of the run
InitReport ==
    /\ DriverInit(Concurrency)
    /\ ProxyInit
    /\ MeasureIdle
    /\ args \in [num_iterations : 1..MaxRunIterations,
                  concurrency : RunConcurrencies]
    /\ raw_results = <<>>
    /\ failed = 0
    /\ report = NoReport
    /\ NothingSaved
    /\ AggregatorIdle

\* one measured request returns: an error record is printed and dropped, a
\* success record is appended
RequestReturns ==
    /\ report.kind = "none"
    /\ Len(raw_results) + failed < TotalExpected(args)
    /\ \/ /\ failed' = failed + 1
          /\ UNCHANGED raw_results
       \/ \E r \in SuccessRecords :
             /\ raw_results' = Append(raw_results, r)
             /\ UNCHANGED failed
    /\ UNCHANGED <<args, report, rpc, output_file, sink, run_id>>
    /\ UNCHANGED <<dvars, pvars, mvars, avars>>

\* "Aggregate results", to the throughput
AggregateWithoutReturn ==
    /\ report.kind = "none"
    /\ Len(raw_results) + failed = TotalExpected(args)
    /\ report' =
          [kind |-> "output",
           warning |-> HighErrorRate(TotalExpected(args), Len(raw_results)),
           total_requests |-> Len(raw_results),
           throughput_rps |-> IF raw_results = <<>>
                              THEN [num |-> 0, den |-> 1]
                              ELSE Throughput(raw_results)]
    /\ rpc' = "save"
    /\ UNCHANGED <<args, raw_results, failed, output_file, sink, run_id>>
    /\ UNCHANGED <<dvars, pvars, mvars, avars>>

Aggregate ==
    /\ report.kind = "none"
    /\ Len(raw_results) + failed = TotalExpected(args)
    /\ report' =
          IF raw_results = <<>>
          THEN [NoReport EXCEPT !.kind = "no results"]
          ELSE [kind |-> "output",
                warning |-> HighErrorRate(TotalExpected(args), Len(raw_results)),
                total_requests |-> Len(raw_results),
                throughput_rps |-> Throughput(raw_results)]
    /\ rpc' = IF raw_results = <<>> THEN "done" ELSE "save"
    /\ UNCHANGED <<args, raw_results, failed, output_file, sink, run_id>>
    /\ UNCHANGED <<dvars, pvars, mvars, avars>>

\* "Save JSON": json.dump(output, f) into args.output
SaveOutput ==
    /\ rpc = "save"
    /\ output_file' = "output"
    /\ rpc' = "sink"
    /\ UNCHANGED <<args, raw_results, failed, report, sink, run_id>>
    /\ UNCHANGED <<dvars, pvars, mvars, avars>>

\* the calls log_to_mlflow makes inside its try block, in order; the last is
\* the end of the run when the with block is left
SinkSteps ==
    {"set_tracking_uri", "set_experiment", "start_run", "log_params",
     "set_tags", "log_metric", "log_artifact", "end_run"}

\* how a call of log_to_mlflow can go: mlflow is not installed, no tracking
\* URI is given, one of the steps raises, or the run is recorded
SinkOutcomes == {"not_installed", "not_configured", "recorded"} \cup SinkSteps

\* the values of run_id
NoRunId == "None"

RunId == "run-1"

\* "except Exception as e": a step that raises makes log_to_mlflow print a
\* warning and return None
SinkExceptConnectionOnly(step) ==
    IF step \in {"set_tracking_uri", "set_experiment", "start_run"}
    THEN NoRunId ELSE Raised

SinkExcept(step) == NoRunId

\* run_id = log_to_mlflow(args, output, args.output), the whole call
LogToMlflow ==
    /\ rpc = "sink"
    /\ \E o \in SinkOutcomes :
          /\ sink' = o
          /\ LET r == IF o = "recorded" THEN RunId
                      ELSE IF o \in SinkSteps THEN SinkExcept(o)
                      ELSE NoRunId
             IN IF r = Raised
                THEN /\ rpc' = "aborted"
                     /\ UNCHANGED run_id
                ELSE /\ rpc' = "finish"
                     /\ run_id' = r
    /\ UNCHANGED <<args, raw_results, failed, report, output_file>>
    /\ UNCHANGED <<dvars, pvars, mvars, avars>>

\* "if run_id:" the output is written again with mlflow_run_id; then the
\* summary is printed and run_benchmark returns
FinishRun ==
    /\ rpc = "finish"
    /\ output_file' = IF run_id # NoRunId THEN "output_with_run_id"
                      ELSE output_file
    /\ rpc' = "done"
    /\ UNCHANGED <<args, raw_results, failed, report, sink, run_id>>
    /\ UNCHANGED <<dvars, pvars, mvars, avars>>

NextReport ==
    \/ RequestReturns
    \/ Aggregate
    \/ SaveOutput
    \/ LogToMlflow
    \/ FinishRun

SpecReport == InitReport /\ [][NextReport]_vars

(***************************************************************************)
(* The aggregator: compute_percentiles and analyze_bimodality, applied to  *)
(* a list of latencies.  The latencies are whole numbers; a quotient is    *)
(* the pair of its numerator and its denominator, and the standard         *)
(* deviation is kept as its square, the sample variance.                   *)
(***************************************************************************)
\* the latencies a list is made of
SampleValues == {4, 10}

\* "if len(values) < 10" in analyze_bimodality
MinBimodalSamples == 10

\* statistics.quantiles(values, n=100, ...)
Centiles == 100

\* threshold_ratio: float = 0.3
ThresholdRatio == [num |-> 3, den |-> 10]

Zero == [num |-> 0, den |-> 1]

Whole(v) == [num |-> v, den |-> 1]

\* sorted(values)
Unsorted(vs) == vs

Sorted(vs) == SortSeq(vs, LAMBDA a, b : a < b)

RECURSIVE Sum(_)
Sum(vs) == IF vs = <<>> THEN 0 ELSE vs[1] + Sum(Tail(vs))

RECURSIVE SumSquares(_)
SumSquares(vs) == IF vs = <<>> THEN 0 ELSE vs[1] * vs[1] + SumSquares(Tail(vs))

\* statistics.mean(values)
MeanBessel(vs) == [num |-> Sum(vs), den |-> Len(vs) - 1]

Mean(vs) == [num |-> Sum(vs), den |-> Len(vs)]

\* statistics.stdev(values) ** 2, for two values or more:
\* sum((x - mean) ** 2) / (n - 1)
Variance(vs) ==
    [num |-> Len(vs) * SumSquares(vs) - Sum(vs) * Sum(vs),
     den |-> Len(vs) * (Len(vs) - 1)]

\* statistics.quantiles(values, n=100, method='inclusive')[i - 1]:
\* j, delta = divmod(i * (len - 1), n);
\* (data[j] * (n - delta) + data[j + 1] * delta) / n, data sorted, from 0
QuantileTruncatedRank(vs, i) ==
    LET n == Len(vs)
        k == IF (n * i) \div Centiles < n - 1 THEN (n * i) \div Centiles
             ELSE n - 1
    IN Whole(Sorted(vs)[k + 1])

Quantile(vs, i) ==
    LET data == Sorted(vs)
        j == (i * (Len(vs) - 1)) \div Centiles
        delta == (i * (Len(vs) - 1)) % Centiles
    IN [num |-> data[j + 1] * (Centiles - delta) + data[j + 2] * delta,
        den |-> Centiles]

\* the fallback of compute_percentiles when statistics.quantiles raises
\* StatisticsError (fewer than two values): sorted_vals[min(int(n * p), n - 1)]
FallbackQuantile(vs, i) ==
    LET n == Len(vs)
        k == IF i = 50 THEN n \div 2
             ELSE IF (n * i) \div Centiles < n - 1 THEN (n * i) \div Centiles
             ELSE n - 1
    IN Whole(Sorted(vs)[k + 1])

Percentile(vs, i) ==
    IF Len(vs) >= 2 THEN Quantile(vs, i) ELSE FallbackQuantile(vs, i)

\* compute_percentiles(values)
compute_percentilesUnguarded(vs) ==
    LET data == IF vs = <<>> THEN <<0>> ELSE vs
    IN [called |-> TRUE,
        p50 |-> Percentile(data, 50),
        p95 |-> Percentile(data, 95),
        p99 |-> Percentile(data, 99),
        mean |-> Mean(vs),
        variance |-> IF Len(vs) > 1 THEN Variance(vs) ELSE Zero,
        min |-> Sorted(data)[1],
        max |-> Sorted(data)[Len(data)],
        raw |-> vs]

compute_percentiles(vs) ==
    IF vs = <<>>
    THEN [called |-> TRUE, p50 |-> Zero, p95 |-> Zero, p99 |-> Zero,
          mean |-> Zero, variance |-> Zero, min |-> 0, max |-> 0, raw |-> <<>>]
    ELSE [called |-> TRUE,
          p50 |-> Percentile(vs, 50),
          p95 |-> Percentile(vs, 95),
          p99 |-> Percentile(vs, 99),
          mean |-> Mean(vs),
          variance |-> IF Len(vs) > 1 THEN Variance(vs) ELSE Zero,
          min |-> Sorted(vs)[1],
          max |-> Sorted(vs)[Len(vs)],
          raw |-> vs]

\* "cv = stdev_val / mean_val if mean_val > 0 else 0" and "if cv >
\* threshold_ratio": with a positive mean, stdev / mean > t is
\* variance > t * t * mean * mean
CvExceeds(vs, t) ==
    /\ Mean(vs).num > 0
    /\ Variance(vs).num * t.den * t.den * Mean(vs).den * Mean(vs).den
          > t.num * t.num * Mean(vs).num * Mean(vs).num * Variance(vs).den

\* statistics.median(values), as twice the median
TwiceMedian(vs) ==
    LET data == Sorted(vs)
        n == Len(vs)
    IN IF n % 2 = 1 THEN 2 * data[(n + 1) \div 2]
       ELSE data[n \div 2] + data[n \div 2 + 1]

\* phase_a = [v for v in values if v > median_val]
SlowInclusive(vs) == SelectSeq(vs, LAMBDA v : 2 * v >= TwiceMedian(vs))

Slow(vs) == SelectSeq(vs, LAMBDA v : 2 * v > TwiceMedian(vs))

\* phase_b = [v for v in values if v <= median_val]
Fast(vs) == SelectSeq(vs, LAMBDA v : 2 * v <= TwiceMedian(vs))

\* "if len(values) < 10"
TooFewNever(vs) == FALSE

TooFew(vs) == Len(vs) < MinBimodalSamples

Unimodal(vs) ==
    [called |-> TRUE, bimodal |-> FALSE, phase_a |-> <<>>, phase_b |-> vs,
     phase_a_stats |-> NotCalled,
     phase_b_stats |-> compute_percentiles(vs),
     raw_stats |-> compute_percentiles(vs)]

\* analyze_bimodality(values), with the default threshold_ratio
analyze_bimodality(vs) ==
    IF TooFew(vs) THEN Unimodal(vs)
    ELSE IF /\ CvExceeds(vs, ThresholdRatio)
            /\ Len(Slow(vs)) > 0
            /\ Len(Fast(vs)) > 0
         THEN [called |-> TRUE, bimodal |-> TRUE,
               phase_a |-> Slow(vs), phase_b |-> Fast(vs),
               phase_a_stats |-> compute_percentiles(Slow(vs)),
               phase_b_stats |-> compute_percentiles(Fast(vs)),
               raw_stats |-> compute_percentiles(vs)]
         ELSE Unimodal(vs)

InitAggregator ==
    /\ DriverInit(Concurrency)
    /\ ProxyInit
    /\ MeasureIdle
    /\ ReportIdle
    /\ AggregatorIdle

\* the list of latencies grows until a function is applied to it
Observe ==
    /\ ~percentiles.called
    /\ ~bimodality.called
    /\ Len(values) < MaxSamples
    /\ \E v \in SampleValues : values' = Append(values, v)
    /\ UNCHANGED <<percentiles, bimodality>>
    /\ UNCHANGED <<dvars, pvars, mvars, rvars>>

ComputePercentiles ==
    /\ ~percentiles.called
    /\ percentiles' = compute_percentiles(values)
    /\ UNCHANGED <<values, bimodality>>
    /\ UNCHANGED <<dvars, pvars, mvars, rvars>>

AnalyzeBimodality ==
    /\ ~bimodality.called
    /\ bimodality' = analyze_bimodality(values)
    /\ UNCHANGED <<values, percentiles>>
    /\ UNCHANGED <<dvars, pvars, mvars, rvars>>

NextAggregator ==
    \/ Observe
    \/ ComputePercentiles
    \/ AnalyzeBimodality

SpecAggregator == InitAggregator /\ [][NextAggregator]_vars

(***************************************************************************)
(* The proxy: DisaggregatedProxyServerV2.                                  *)
(***************************************************************************)
\* leaving "async with self.session.post(...) as response": the response's
\* connection is released, self.session stays what it is
ReleaseClosesSession(s) == "closed"

Release(s) == s

\* a handler of the application is running
InFlight(r) == r.pc \notin {"idle", "done", "error", "cancelled"}

\* on_startup, run once by web.run_app before it serves: start() creates the
\* ClientSession when there is none
ProxyStart ==
    /\ app = "init"
    /\ app' = "running"
    /\ session' = IF session = "none" THEN "open" ELSE session
    /\ UNCHANGED <<req, dvars, svars>>

\* on_cleanup, run once by web.run_app when it shuts down, after the handlers
\* have ended: cleanup() closes the ClientSession and sets self.session = None
ProxyCleanup ==
    /\ app = "running"
    /\ \A q \in DOMAIN req : ~InFlight(req[q])
    /\ app' = "stopped"
    /\ session' = IF session # "none" THEN "none" ELSE session
    /\ UNCHANGED <<req, dvars, svars>>

\* run_prefill: prefill_data = deepcopy(request_data) with max_tokens = 1,
\* stream = False and kv_transfer_params = {"do_remote_decode": True}
PrefillDataKeepStream(request_data) ==
    [request_data EXCEPT !.max_tokens = 1, !.kv_transfer_params = "directive"]

PrefillData(request_data) ==
    [request_data EXCEPT !.max_tokens = 1, !.stream = "false",
                         !.kv_transfer_params = "directive"]

\* "if kv_transfer_params:" an absent (None) or empty value is falsy
Truthy(kv) == kv \notin {Absent, "empty"}

\* stream_decode: decode_data = deepcopy(request_data) with stream = True and,
\* when stage 1 returned a token, kv_transfer_params = that token
DecodeDataFromPrefill(request_data, kv) ==
    [PrefillData(request_data) EXCEPT
        !.max_tokens = request_data.max_tokens,
        !.stream = "true",
        !.kv_transfer_params = IF Truthy(kv) THEN kv ELSE @]

DecodeData(request_data, kv) ==
    [request_data EXCEPT
        !.stream = "true",
        !.kv_transfer_params = IF Truthy(kv) THEN kv ELSE @]

\* "if response.status != 200: raise RuntimeError", in run_prefill
PrefillOkAny(status) == TRUE

PrefillOk(status) == status = 200

\* "if response.status != 200: raise RuntimeError", in stream_decode
DecodeOk(status) == status = 200

\* request_data.get("stream", False)
WantsStream(request_data) == request_data.stream = "true"

\* await response.write(chunk): the chunk goes to the caller as it is
RelayOnce(written, chunk) ==
    IF written # <<>> /\ written[Len(written)] = chunk
    THEN written ELSE Append(written, chunk)

Relay(written, chunk) == Append(written, chunk)

\* the except clause of handle_completion: log, and return
\* web.json_response({"error": str(e)}, status=500).  The status line is the
\* caller's only if no response has been started on its connection.
FailRetry(r, why) ==
    [r EXCEPT !.pc = "prefill_wait", !.s1calls = IF @ < 2 THEN @ + 1 ELSE @]

FailRetryDecode(r, why) ==
    IF why = "stage2" /\ r.s2calls < 2
    THEN [r EXCEPT !.pc = "decode_wait", !.s2calls = @ + 1]
    ELSE [r EXCEPT !.pc = "error",
                   !.fault = why,
                   !.returned = "json500",
                   !.nresp = @ + 1,
                   !.status = IF @ = 0 THEN 500 ELSE @]

FailReconnect(r, why) ==
    IF why = "stage1" THEN [r EXCEPT !.pc = "prefill_wait"]
    ELSE IF why = "stage2" THEN [r EXCEPT !.pc = "decode_wait"]
    ELSE [r EXCEPT !.pc = "error",
                   !.fault = why,
                   !.returned = "json500",
                   !.nresp = @ + 1,
                   !.status = IF @ = 0 THEN 500 ELSE @]

Fail(r, why) ==
    [r EXCEPT !.pc = "error",
              !.fault = why,
              !.returned = "json500",
              !.nresp = @ + 1,
              !.status = IF @ = 0 THEN 500 ELSE @]

\* the outcomes of awaiting a backend's response: a status, or no response
BackendOutcomes ==
    [status : Statuses, failure : {"none"}]
        \cup [status : {0}, failure : {"timeout", "transport_error"}]


\* starting stream_decode: decode_data is built and posted to stage 2
StartDecodeSharedBody(r) ==
    [r EXCEPT !.s2body = DecodeData(r.s1body, r.kv_transfer_params),
              !.s2calls = @ + 1,
              !.pc = "decode_wait"]

StartDecodeSharedToken(r) ==
    LET tokens == {req[u].kv_transfer_params :
                      u \in {v \in DOMAIN req : req[v].extracted}}
                    \cup {r.kv_transfer_params}
        shared == IF \E k \in tokens : Truthy(k)
                  THEN CHOOSE k \in tokens : Truthy(k)
                  ELSE r.kv_transfer_params
    IN [r EXCEPT !.s2body = DecodeData(r.request_data, shared),
                 !.s2calls = @ + 1,
                 !.pc = "decode_wait"]

StartDecode(r) ==
    [r EXCEPT !.s2body = DecodeData(r.request_data, r.kv_transfer_params),
              !.s2calls = @ + 1,
              !.pc = "decode_wait"]

\* the inbound bodies of the requests that share the proxy: those whose
\* max_tokens differs from the value stage 1 is given
LoadBodies(q) == {b \in InboundBodies(q) : b.max_tokens > 1}

\* a request arrives, with any inbound body: handle_completion starts, reads
\* the clock (t0) and awaits request.json()
ArriveAny(q) ==
    /\ app = "running"
    /\ req[q].pc = "idle"
    /\ \/ \E b \in InboundBodies(q) :
             req' = [req EXCEPT ![q] = [@ EXCEPT !.pc = "parse", !.inbound = b,
                                                !.t0 = now]]
       \/ req' = [req EXCEPT ![q] = [@ EXCEPT !.pc = "parse", !.inbound_ok = FALSE,
                                              !.t0 = now]]
    /\ UNCHANGED <<app, session, dvars, svars>>

\* a request arrives: handle_completion starts, reads the clock (t0) and
\* awaits request.json()
Arrive(q) ==
    /\ app = "running"
    /\ req[q].pc = "idle"
    /\ \/ \E b \in LoadBodies(q) :
             req' = [req EXCEPT ![q] = [@ EXCEPT !.pc = "parse", !.inbound = b,
                                                !.t0 = now]]
       \/ req' = [req EXCEPT ![q] = [@ EXCEPT !.pc = "parse", !.inbound_ok = FALSE,
                                              !.t0 = now]]
    /\ UNCHANGED <<app, session, dvars, svars>>

\* request.json() returns, or raises on a body that is not JSON; then
\* run_prefill builds prefill_data and posts it to stage 1
Parse(q) ==
    /\ req[q].pc = "parse"
    /\ req' = [req EXCEPT ![q] =
                 IF ~req[q].inbound_ok
                 THEN Fail(@, "caller")
                 ELSE [@ EXCEPT !.request_data = req[q].inbound,
                                !.s1body = PrefillData(req[q].inbound),
                                !.s1calls = @ + 1,
                                !.pc = "prefill_wait"]]
    /\ UNCHANGED <<app, session, dvars, svars>>

\* stage 1 answers (or the 120 s deadline or the transport fails)
PrefillStatus(q) ==
    /\ req[q].pc = "prefill_wait"
    /\ \E o \in BackendOutcomes :
          req' = [req EXCEPT ![q] =
                    IF o.failure = "none" /\ PrefillOk(o.status)
                    THEN [@ EXCEPT !.s1status = o.status, !.pc = "prefill_json"]
                    ELSE Fail([@ EXCEPT !.s1status = o.status], "stage1")]
    /\ session' = Release(session)
    /\ UNCHANGED <<app, dvars, svars>>

\* result = await response.json(); kv_params = result.get("kv_transfer_params")
\* (logged, and warned about when empty); return result, and
\* "t1 = time.perf_counter()" in handle_completion
PrefillBody(q) ==
    /\ req[q].pc = "prefill_json"
    /\ \E kv \in KVValues \cup {"not_json"} :
          req' = [req EXCEPT ![q] =
                    IF kv = "not_json"
                    THEN Fail(@, "stage1")
                    ELSE [@ EXCEPT !.prefill_kv = kv, !.pc = "extract",
                                   !.t1 = now]]
    /\ session' = Release(session)
    /\ UNCHANGED <<app, dvars, svars>>

\* f"{x:.2f}" of a whole number of milliseconds: the sign and the
\* hundredths
Format2f(x) ==
    [sign |-> IF x < 0 THEN "-" ELSE "",
     hundredths |-> (IF x < 0 THEN 0 - x ELSE x) * 100]

\* the timing dict and the two headers made of it:
\* prefill_complete = (t1 - t0) * 1000, kv_extract = (t2 - t1) * 1000
TimingHeadersPrefillOnly(r) ==
    {[name |-> "X-Proxy-Prefill-Time",
      value |-> Format2f((r.t1 - r.t0) * MsPerSecond)]}

TimingHeaders(r) ==
    {[name |-> "X-Proxy-Prefill-Time",
      value |-> Format2f((r.t1 - r.t0) * MsPerSecond)],
     [name |-> "X-Proxy-KV-Extract-Time",
      value |-> Format2f((r.t2 - r.t1) * MsPerSecond)]}

\* kv_transfer_params = prefill_result.get("kv_transfer_params"); t2 and the
\* timing; a streaming request builds its StreamResponse with the timing
\* headers and awaits prepare(), any other request starts stream_decode at
\* once
ExtractThenDecode(q) ==
    /\ req[q].pc = "extract"
    /\ LET r == [req[q] EXCEPT !.kv_transfer_params = req[q].prefill_kv,
                               !.extracted = TRUE,
                               !.t2 = now]
       IN req' = [req EXCEPT ![q] =
                    IF WantsStream(r.request_data)
                    THEN StartDecode([r EXCEPT !.headers = TimingHeaders(r)])
                    ELSE StartDecode(r)]
    /\ UNCHANGED <<app, session, dvars, svars>>

Extract(q) ==
    /\ req[q].pc = "extract"
    /\ LET r == [req[q] EXCEPT !.kv_transfer_params = req[q].prefill_kv,
                               !.extracted = TRUE,
                               !.t2 = now]
       IN req' = [req EXCEPT ![q] =
                    IF WantsStream(r.request_data)
                    THEN [r EXCEPT !.pc = "prepare",
                                   !.headers = TimingHeaders(r)]
                    ELSE StartDecode(r)]
    /\ UNCHANGED <<app, session, dvars, svars>>

\* await response.prepare(request): status 200 and the headers go to the
\* caller; then the relay loop starts stream_decode
Prepare(q) ==
    /\ req[q].pc = "prepare"
    /\ \E ok \in BOOLEAN :
          req' = [req EXCEPT ![q] =
                    IF ok
                    THEN StartDecode([@ EXCEPT !.status = 200, !.nresp = @ + 1,
                                               !.sent_headers = req[q].headers])
                    ELSE Fail(@, "caller")]
    /\ UNCHANGED <<app, session, dvars, svars>>

\* stage 2 answers (or the 300 s deadline or the transport fails)
DecodeStatus(q) ==
    /\ req[q].pc = "decode_wait"
    /\ \E o \in BackendOutcomes :
          req' = [req EXCEPT ![q] =
                    IF o.failure = "none" /\ DecodeOk(o.status)
                    THEN [@ EXCEPT !.s2status = o.status, !.pc = "decode_read"]
                    ELSE Fail([@ EXCEPT !.s2status = o.status], "stage2")]
    /\ session' = Release(session)
    /\ UNCHANGED <<app, dvars, svars>>

\* "async for line in response.content: yield line": a line arrives and is
\* handed to the loop in handle_completion
DecodeLine(q) ==
    /\ req[q].pc = "decode_read"
    /\ Len(req[q].received) < MaxChunks
    /\ \E c \in ChunkValues :
          req' = [req EXCEPT ![q] =
                    IF WantsStream(@.request_data)
                    THEN [@ EXCEPT !.received = Append(@, c), !.pc = "write"]
                    ELSE [@ EXCEPT !.received = Append(@, c),
                                   !.collected = Append(@, c)]]
    /\ UNCHANGED <<app, session, dvars, svars>>

\* the lines stage 2 can stream, by what _extract_final_result does with
\* them.  The lines of ChunkValues are "data: " frames whose JSON is a
\* non-empty object, named by the line; the others are a frame whose JSON
\* is the empty object, the end marker, a frame whose JSON does not parse,
\* a line that is not a "data: " frame, and bytes that are not UTF-8.
FinalLines ==
    ChunkValues \cup {"data: {}", "data: [DONE]", "data: {tr", "event: ping",
                      "not utf-8"}

\* chunk.decode("utf-8") does not raise
Decodes(line) == line # "not utf-8"

\* line.startswith("data: ")
IsData(line) == line \in ChunkValues \cup {"data: {}", "data: [DONE]", "data: {tr"}

\* json.loads(line[6:]) does not raise
Parses(line) == line \in ChunkValues \cup {"data: {}"}

\* json.loads(line[6:]): the object of the frame
EmptyObject == "{}"

Loads(line) == IF line = "data: {}" THEN EmptyObject ELSE line

\* result = None before the loop
None == "None"

\* the body {"error": "No valid response"}
NoValidResponse == "error: No valid response"

\* the loop of _extract_final_result: a frame that decodes, starts with
\* "data: ", is not "data: [DONE]" and parses replaces result; a chunk that
\* raises is skipped
RECURSIVE ExtractLoop(_, _)
ExtractLoop(chunks, res) ==
    IF chunks = <<>> THEN res
    ELSE LET line == Head(chunks)
         IN ExtractLoop(Tail(chunks),
               IF /\ Decodes(line)
                  /\ IsData(line)
                  /\ line # "data: [DONE]"
                  /\ Parses(line)
               THEN Loads(line) ELSE res)

\* bool(result): None and the empty object are falsy
PyTruthy(res) == res \notin {None, EmptyObject}

\* return result or {"error": "No valid response"}
extract_final_result(chunks) ==
    LET res == ExtractLoop(chunks, None)
    IN IF PyTruthy(res) THEN res ELSE NoValidResponse

\* the stream of stage 2 ends: write_eof for a streaming request, the one
\* JSON answer for any other
DecodeEnd(q) ==
    /\ req[q].pc = "decode_read"
    /\ req' = [req EXCEPT ![q] =
                 IF WantsStream(@.request_data)
                 THEN [@ EXCEPT !.pc = "write_eof"]
                 ELSE [@ EXCEPT !.pc = "done", !.returned = "json200",
                                !.status = 200, !.nresp = @ + 1,
                                !.final_result =
                                    extract_final_result(req[q].collected)]]
    /\ session' = Release(session)
    /\ UNCHANGED <<app, dvars, svars>>

\* the stream of stage 2 breaks (transport failure or the deadline)
DecodeBreak(q) ==
    /\ req[q].pc = "decode_read"
    /\ \E f \in {"timeout", "transport_error"} :
          req' = [req EXCEPT ![q] = Fail(@, "stage2")]
    /\ session' = Release(session)
    /\ UNCHANGED <<app, dvars, svars>>

\* await response.write(chunk), with the chunk just received
Write(q) ==
    /\ req[q].pc = "write"
    /\ \E ok \in BOOLEAN :
          req' = [req EXCEPT ![q] =
                    IF ok
                    THEN [@ EXCEPT !.written = Relay(@, req[q].received[Len(req[q].received)]),
                                   !.pc = "decode_read"]
                    ELSE Fail(@, "caller")]
    /\ UNCHANGED <<app, session, dvars, svars>>

\* await response.write_eof(); return response
WriteEof(q) ==
    /\ req[q].pc = "write_eof"
    /\ \E ok \in BOOLEAN :
          req' = [req EXCEPT ![q] =
                    IF ok
                    THEN [@ EXCEPT !.pc = "done", !.returned = "stream"]
                    ELSE Fail(@, "caller")]
    /\ UNCHANGED <<app, session, dvars, svars>>

NextProxy ==
    \/ ProxyStart
    \/ ProxyCleanup
    \/ \E q \in ReqIds :
          \/ Arrive(q)
          \/ Parse(q)
          \/ PrefillStatus(q)
          \/ PrefillBody(q)
          \/ Extract(q)
          \/ Prepare(q)
          \/ DecodeStatus(q)
          \/ DecodeLine(q)
          \/ DecodeEnd(q)
          \/ DecodeBreak(q)
          \/ Write(q)
          \/ WriteEof(q)

SpecProxy == Init /\ [][NextProxy]_vars

(***************************************************************************)
(* The proxy with its progress.  A handler that is suspended in an await   *)
(* goes on when what it awaits is over: the body of the inbound request    *)
(* has arrived, a backend has answered or the ClientTimeout of the call    *)
(* (total=120 for stage 1, total=300 for stage 2, the reading of the       *)
(* response included) has expired, a line or the end of the stream of      *)
(* stage 2 has arrived, the caller has taken what was written to it.  The  *)
(* event loop then runs the handler to its next await.                     *)
(***************************************************************************)
\* handle_completion for request q takes its next step
RequestStep(q) ==
    \/ Parse(q)
    \/ PrefillStatus(q)
    \/ PrefillBody(q)
    \/ Extract(q)
    \/ Prepare(q)
    \/ DecodeStatus(q)
    \/ DecodeLine(q)
    \/ DecodeEnd(q)
    \/ DecodeBreak(q)
    \/ Write(q)
    \/ WriteEof(q)

Progress == \A q \in ReqIds : WF_vars(RequestStep(q))

SpecLive == Init /\ [][NextProxy]_vars /\ Progress

(***************************************************************************)
(* One proxied request, with any inbound body and with the readings of     *)
(* time.perf_counter() that handle_completion takes (t0, t1, t2): the      *)
(* clock, in whole seconds up to MaxClock, moves while the handler runs.   *)
(***************************************************************************)
TimedIds == {1}

InitTimed == DriverInit(Concurrency) /\ ProxyInitOf(TimedIds) /\ StatsIdle

\* time passes while a handler runs
ProxyTick ==
    /\ \E q \in DOMAIN req : InFlight(req[q])
    /\ now < MaxClock
    /\ now' = now + 1
    /\ UNCHANGED <<mpc, request_start, token_times, frame, result>>
    /\ UNCHANGED <<dvars, pvars, rvars, avars>>

NextTimed ==
    \/ ProxyStart
    \/ ProxyCleanup
    \/ ProxyTick
    \/ \E q \in TimedIds :
          \/ ArriveAny(q)
          \/ Parse(q)
          \/ PrefillStatus(q)
          \/ PrefillBody(q)
          \/ Extract(q)
          \/ Prepare(q)
          \/ DecodeStatus(q)
          \/ DecodeLine(q)
          \/ DecodeEnd(q)
          \/ DecodeBreak(q)
          \/ Write(q)
          \/ WriteEof(q)

SpecTimed == InitTimed /\ [][NextTimed]_vars

(***************************************************************************)
(* The proxy while it serves, with one more request in flight than above,  *)
(* and with handlers that are cancelled: aiohttp cancels a handler's task  *)
(* at whatever await it is suspended in (the caller's connection is lost,  *)
(* or the server shuts down).  CancelledError is not an Exception: the     *)
(* except clause of handle_completion does not catch it, the handler ends  *)
(* without a response of its own.                                          *)
(***************************************************************************)
ManyReqIds == 1..(NumRequests + 1)

InitMany == DriverInit(Concurrency) /\ ProxyInitOf(ManyReqIds) /\ StatsIdle

CancelAll(q) ==
    /\ app = "running"
    /\ InFlight(req[q])
    /\ req' = [u \in DOMAIN req |->
                 IF InFlight(req[u])
                 THEN [req[u] EXCEPT !.pc = "cancelled", !.fault = "cancelled"]
                 ELSE req[u]]
    /\ session' = Release(session)
    /\ UNCHANGED <<app, dvars, svars>>

Cancel(q) ==
    /\ app = "running"
    /\ InFlight(req[q])
    /\ req' = [req EXCEPT ![q] = [@ EXCEPT !.pc = "cancelled", !.fault = "cancelled"]]
    /\ session' = Release(session)
    /\ UNCHANGED <<app, dvars, svars>>

NextMany ==
    \/ ProxyStart
    \/ \E q \in ManyReqIds :
          \/ Arrive(q)
          \/ Parse(q)
          \/ PrefillStatus(q)
          \/ PrefillBody(q)
          \/ Extract(q)
          \/ Prepare(q)
          \/ DecodeStatus(q)
          \/ DecodeLine(q)
          \/ DecodeEnd(q)
          \/ DecodeBreak(q)
          \/ Write(q)
          \/ WriteEof(q)
          \/ Cancel(q)

SpecMany == InitMany /\ [][NextMany]_vars

(***************************************************************************)
(* The proxy with stage 2 streaming any kind of line, as                   *)
(* _extract_final_result tells them apart.                                 *)
(***************************************************************************)
\* "async for line in response.content: yield line", with any line
DecodeLineFinal(q) ==
    /\ req[q].pc = "decode_read"
    /\ Len(req[q].received) < MaxChunks
    /\ \E c \in FinalLines :
          req' = [req EXCEPT ![q] =
                    IF WantsStream(@.request_data)
                    THEN [@ EXCEPT !.received = Append(@, c), !.pc = "write"]
                    ELSE [@ EXCEPT !.received = Append(@, c),
                                   !.collected = Append(@, c)]]
    /\ UNCHANGED <<app, session, dvars, svars>>

NextFinal ==
    \/ ProxyStart
    \/ ProxyCleanup
    \/ \E q \in ReqIds :
          \/ ArriveAny(q)
          \/ Parse(q)
          \/ PrefillStatus(q)
          \/ PrefillBody(q)
          \/ Extract(q)
          \/ Prepare(q)
          \/ DecodeStatus(q)
          \/ DecodeLineFinal(q)
          \/ DecodeEnd(q)
          \/ DecodeBreak(q)
          \/ Write(q)
          \/ WriteEof(q)

SpecFinal == Init /\ [][NextFinal]_vars

(***************************************************************************)
(* The same requests side by side with the clock: every handler reads      *)
(* time.perf_counter() of the one process, and the requests take their     *)
(* steps in any order while it moves.                                      *)
(***************************************************************************)
\* the inbound bodies of these requests: those that name stream
SharedBodies(q) == {b \in LoadBodies(q) : b.stream # Absent}

\* a request arrives: handle_completion starts, reads the clock (t0) and
\* awaits request.json()
ArriveShared(q) ==
    /\ app = "running"
    /\ req[q].pc = "idle"
    /\ \/ \E b \in SharedBodies(q) :
             req' = [req EXCEPT ![q] = [@ EXCEPT !.pc = "parse", !.inbound = b,
                                                !.t0 = now]]
       \/ req' = [req EXCEPT ![q] = [@ EXCEPT !.pc = "parse", !.inbound_ok = FALSE,
                                              !.t0 = now]]
    /\ UNCHANGED <<app, session, dvars, svars>>

\* time passes while a handler runs, up to SharedClock
SharedTick ==
    /\ \E q \in DOMAIN req : InFlight(req[q])
    /\ now < SharedClock
    /\ now' = now + 1
    /\ UNCHANGED <<mpc, request_start, token_times, frame, result>>
    /\ UNCHANGED <<dvars, pvars, rvars, avars>>

NextShared ==
    \/ ProxyStart
    \/ SharedTick
    \/ \E q \in ManyReqIds :
          \/ ArriveShared(q)
          \/ Parse(q)
          \/ PrefillStatus(q)
          \/ PrefillBody(q)
          \/ Extract(q)
          \/ Prepare(q)
          \/ DecodeStatus(q)
          \/ DecodeLine(q)
          \/ DecodeEnd(q)
          \/ DecodeBreak(q)
          \/ Write(q)
          \/ WriteEof(q)

SpecShared == InitMany /\ [][NextShared]_vars

(***************************************************************************)
(* Properties of the driver.                                               *)
(***************************************************************************)
Unresolved == {t \in TaskIds : tpc[t] \notin {"none", "resolved"}}

Holders == {t \in TaskIds : InIO(t)}

\* C1: at most `concurrency` requests are created and not yet resolved, and
\* at most `concurrency` tasks hold a permit of the semaphore.
C1_AdmissionBound ==
    /\ Cardinality(Unresolved) <= Concurrency
    /\ Cardinality(Holders) <= Concurrency
    /\ semaphore + Cardinality(Holders) = Concurrency

\* a later round has all its requests in flight at once
C1_Witness ==
    /\ round_num >= 1
    /\ Holders = RoundTasks(round_num)

\* C2: a request of round N exists only when every request of the earlier
\* rounds has resolved; unresolved requests all belong to one round.
C2_NoCrossRound ==
    /\ \A t, u \in Unresolved : RoundOf(t) = RoundOf(u)
    /\ \A t, u \in TaskIds :
          tpc[t] # "none" /\ RoundOf(u) < RoundOf(t) => tpc[u] = "resolved"

\* round 1 is in flight after a round 0 that had a failure
C2_Witness ==
    /\ \E t \in RoundTasks(1) : InIO(t)
    /\ errors >= 1

CountedRounds == IF dpc = "sleep" THEN round_num + 1 ELSE round_num

\* task t is of a round the driver has counted
Counted(t) == RoundOf(t) < CountedRounds

\* C8: a task that has returned has returned one record, an error record or
\* a success record with at least one token; no task raises; and the step in
\* which one task resolves with an error changes nothing of any other task.
C8_Records ==
    /\ dpc # "aborted"
    /\ \A t \in TaskIds :
          /\ tpc[t] = "resolved" /\ ~Counted(t)
                => rec[t] = SuccessRec \/ rec[t] \in ErrorRecs
          /\ tpc[t] # "resolved" => rec[t] = NoRec
          /\ rec[t] = SuccessRec => ntok[t] >= 1

C8_SiblingsStep ==
    \A t \in TaskIds :
        tpc[t] # "resolved" /\ tpc'[t] = "resolved" /\ rec'[t] # SuccessRec
            => \A u \in TaskIds \ {t} :
                  /\ tpc'[u] = tpc[u]
                  /\ rec'[u] = rec[u]
                  /\ ntok'[u] = ntok[u]
                  /\ elapsed'[u] = elapsed[u]

C8_OneRecordEach == [][C8_Records' /\ C8_SiblingsStep]_vars

\* one task of a round timed out and its sibling succeeded
C8_Witness ==
    \E t, u \in RoundTasks(round_num) :
        /\ dpc = "gather"
        /\ rec[t] = ErrTimeout
        /\ rec[u] = SuccessRec

\* the successful tasks of round r
Succeeded(r) == {t \in RoundTasks(r) : rec[t] = SuccessRec}

\* the step in which the driver counts a round
C9_CountStep ==
    dpc = "gather" /\ dpc' # "gather" =>
        /\ dpc' = "sleep"
        /\ \A t \in RoundTasks(round_num) : tpc[t] = "resolved"
        /\ Len(all_results') = Len(all_results) + Cardinality(Succeeded(round_num))
        /\ \A i \in DOMAIN all_results' :
              IF i <= Len(all_results) THEN all_results'[i] = all_results[i]
              ELSE all_results'[i] = SuccessRec
        /\ successes' = Cardinality(Succeeded(round_num))
        /\ errors' = Concurrency - Cardinality(Succeeded(round_num))

C9_Rounds ==
    /\ dpc # "aborted"
    /\ \A t \in TaskIds : Counted(t) => tpc[t] = "resolved"
    /\ dpc = "done" => /\ round_num = NumIterations
                       /\ ncreated = NumIterations * Concurrency
                       /\ CountedRounds = NumIterations

\* C9: failures stop neither the round nor the run: the driver counts a round
\* only when all its tasks have resolved, appends exactly the round's success
\* records to all_results, counts `concurrency` outcomes, never aborts, and
\* ends after exactly `rounds` rounds of `concurrency` tasks.
C9_RoundsSurviveFailures == [][C9_CountStep /\ C9_Rounds']_vars

\* the run ended after earlier rounds in which every request failed and a
\* last round with both failures and successes
C9_Witness ==
    /\ dpc = "done"
    /\ successes >= 1
    /\ errors >= 1
    /\ Len(all_results) = successes

(***************************************************************************)
(* Properties of the proxy.                                                *)
(***************************************************************************)
IsPrefix(a, b) == Len(a) <= Len(b) /\ \A i \in 1..Len(a) : a[i] = b[i]

\* C3: a request whose stage 1 answered with a status other than 200 is in
\* ERROR, its caller got the one JSON error response with status 500, and
\* nothing was sent to stage 2 for it.
C3_Stage1FailureIs500 ==
    \A q \in ReqIds :
        req[q].s1status \notin {0, 200} =>
            /\ req[q].pc = "error"
            /\ req[q].status = 500
            /\ req[q].returned = "json500"
            /\ req[q].nresp = 1
            /\ req[q].s2calls = 0
            /\ req[q].written = <<>>

\* a streaming request whose stage 1 answered 500
C3_Witness ==
    \E q \in ReqIds :
        /\ req[q].s1status = 500
        /\ req[q].pc = "error"
        /\ WantsStream(req[q].request_data)

\* C4 (as claimed): a request that ended in ERROR on a stage failure gave its
\* caller one response, with status 500 and the error payload, and no relayed
\* chunk.
C4_AnyStageFailureIs500 ==
    \A q \in ReqIds :
        req[q].pc = "error" /\ req[q].fault \in {"stage1", "stage2"} =>
            /\ req[q].status = 500
            /\ req[q].returned = "json500"
            /\ req[q].nresp = 1
            /\ req[q].written = <<>>

\* C5: after a stage 1 success without the hand-off field, the body sent to
\* stage 2 has no hand-off field, the request ends in ERROR only on a failure
\* of stage 2 or of the caller's connection, and at DONE every line stage 2
\* streamed was relayed (streaming request) or collected (any other) as it was.
C5_NoHandoffStillCompletes ==
    \A q \in ReqIds :
        req[q].extracted /\ req[q].prefill_kv = Absent =>
            /\ req[q].s2calls >= 1 => req[q].s2body.kv_transfer_params = Absent
            /\ req[q].pc = "error" => req[q].fault \in {"stage2", "caller"}
            /\ req[q].pc = "done" =>
                  IF WantsStream(req[q].request_data)
                  THEN req[q].written = req[q].received
                  ELSE req[q].collected = req[q].received

\* a streaming request without hand-off token reached DONE with every line
\* of a full stream relayed
C5_Witness ==
    \E q \in ReqIds :
        /\ req[q].pc = "done"
        /\ req[q].prefill_kv = Absent
        /\ req[q].s1status = 200
        /\ WantsStream(req[q].request_data)
        /\ Len(req[q].received) = MaxChunks
        /\ req[q].written = req[q].received
        /\ req[q].s2body.kv_transfer_params = Absent

\* C6: for a streaming request the chunks written to the caller are always a
\* prefix of the lines received from stage 2, and are all of them at DONE.
C6_RelayIsPrefix ==
    \A q \in ReqIds :
        WantsStream(req[q].request_data) =>
            /\ IsPrefix(req[q].written, req[q].received)
            /\ req[q].pc = "done" => req[q].written = req[q].received

\* two lines have arrived, the first is written, the second is being written
C6_Witness ==
    \E q \in ReqIds :
        /\ req[q].pc = "write"
        /\ Len(req[q].received) = 2
        /\ Len(req[q].written) = 1

\* the positions of handle_completion
Positions == {"idle", "parse", "prefill_wait", "prefill_json", "extract",
              "prepare", "decode_wait", "decode_read", "write", "write_eof",
              "done", "error"}

\* the phase a position of handle_completion belongs to
Phase ==
    [pc \in Positions |->
        CASE pc = "idle" -> "NONE"
          [] pc = "parse" -> "RECEIVED"
          [] pc \in {"prefill_wait", "prefill_json"} -> "STAGE1_INFLIGHT"
          [] pc \in {"extract", "prepare"} -> "STAGE1_DONE"
          [] pc = "decode_wait" -> "STAGE2_INFLIGHT"
          [] pc \in {"decode_read", "write", "write_eof"} -> "STREAMING"
          [] pc = "done" -> "DONE"
          [] pc = "error" -> "ERROR"]

PhaseOrder == <<"NONE", "RECEIVED", "STAGE1_INFLIGHT", "STAGE1_DONE",
                "STAGE2_INFLIGHT", "STREAMING", "DONE">>

PhaseIndex ==
    [ph \in {PhaseOrder[i] : i \in 1..Len(PhaseOrder)} |->
        CHOOSE i \in 1..Len(PhaseOrder) : PhaseOrder[i] = ph]

C10_PhaseStep ==
    \A q \in ReqIds :
        req[q].pc # req'[q].pc /\ Phase[req[q].pc] # Phase[req'[q].pc] =>
            /\ Phase[req[q].pc] \notin {"DONE", "ERROR"}
            /\ IF Phase[req'[q].pc] = "ERROR"
               THEN Phase[req[q].pc] # "NONE"
               ELSE PhaseIndex[Phase[req'[q].pc]]
                        = PhaseIndex[Phase[req[q].pc]] + 1

C10_PhaseFacts ==
    \A q \in ReqIds :
        /\ req[q].s2calls >= 1 => req[q].s1status = 200 /\ req[q].extracted
        /\ req[q].written # <<>> => req[q].s2status = 200
        /\ Phase[req[q].pc] \in {"STAGE2_INFLIGHT", "STREAMING", "DONE"}
              => req[q].s2calls >= 1

\* C10: every step of a request keeps its phase, moves it to the next phase
\* of RECEIVED, STAGE1_INFLIGHT, STAGE1_DONE, STAGE2_INFLIGHT, STREAMING, DONE,
\* or moves it from a phase before DONE to ERROR; stage 2 is contacted only
\* after stage 1 answered 200 and the token was extracted, and nothing is
\* relayed before stage 2 answered.
C10_PhasesInOrder == [][C10_PhaseStep /\ C10_PhaseFacts']_vars

\* a streaming request went through every phase to DONE
C10_Witness ==
    \E q \in ReqIds :
        /\ req[q].pc = "done"
        /\ req[q].returned = "stream"
        /\ req[q].written # <<>>

\* C11: for each inbound request at most one request has been sent to stage 1
\* and at most one to stage 2, whatever failed.
C11_NoStageCallRepeated ==
    \A q \in ReqIds :
        /\ req[q].s1calls <= 1
        /\ req[q].s2calls <= 1

\* a request failed on stage 2 after one call to each stage
C11_Witness ==
    \E q \in ReqIds :
        /\ req[q].pc = "error"
        /\ req[q].fault = "stage2"
        /\ req[q].s1calls = 1
        /\ req[q].s2calls = 1

C12_PoolStep ==
    session' # session =>
        \/ /\ session = "none" /\ session' = "open"
           /\ app = "init" /\ app' = "running"
        \/ /\ session = "open" /\ session' = "none"
           /\ app = "running" /\ app' = "stopped"

C12_PoolOpen ==
    /\ app = "init" => session = "none"
    /\ app = "running" => session = "open"
    /\ \A q \in ReqIds : InFlight(req[q]) => app = "running"

\* C12: the pool is created only by the one start() of startup and closed
\* only by the cleanup() of shutdown; between the two it is open in every
\* state, whatever the requests do and however they end.
C12_PoolOpenedOnceClosedAtShutdown == [][C12_PoolStep /\ C12_PoolOpen']_vars

\* a request ended in ERROR on stage 2 and the pool is still open
C12_Witness ==
    \E q \in ReqIds :
        /\ req[q].pc = "error"
        /\ req[q].fault = "stage2"
        /\ app = "running"
        /\ session = "open"

C13_CancelStep ==
    \A q \in ManyReqIds :
        InFlight(req[q]) /\ ~InFlight(req'[q]) /\ req'[q].pc # "done" =>
            /\ session' = session
            /\ app' = app
            /\ \A u \in ManyReqIds \ {q} : req'[u] = req[u]

C13_PoolUsable ==
    \A q \in ManyReqIds : req[q].pc # "idle" => session = "open"

\* C13: the step in which one request is cancelled or fails changes nothing
\* of any other request, so each of them goes on from the state it was in,
\* and leaves the pool open.
C13_CancelLeavesOthers == [][C13_CancelStep /\ C13_PoolUsable']_vars

\* one request was cancelled while a line was being relayed, another is
\* relaying
C13_Witness ==
    \E q, u \in ManyReqIds :
        /\ q # u
        /\ req[q].pc = "cancelled"
        /\ req[q].written # <<>>
        /\ req[u].pc = "write"
        /\ session = "open"

(***************************************************************************)
(* Properties of one measured call.                                        *)
(***************************************************************************)
\* C14 (as claimed): a success record with n >= 2 tokens observed at t1..tn
\* has TPOT x (n - 1) = tn - t1 and TTFT = t1 - start, in milliseconds.
C14_TpotIsMeanTokenInterval ==
    result.kind = SuccessRec /\ Len(token_times) >= 2 =>
        /\ result.tpot_ms.num * (Len(token_times) - 1)
              = (token_times[Len(token_times)] - token_times[1])
                    * MsPerSecond * result.tpot_ms.den
        /\ result.ttft_ms = (token_times[1] - request_start) * MsPerSecond

\* C20 (as claimed): a line that is not a content event is skipped; after it
\* the call is still reading, with no record returned.
C20_UninterpretableFrameSkipped ==
    frame \in {"bad_json", "bad_struct", "bad_utf8"} =>
        /\ mpc = "read"
        /\ result = NoResult

(***************************************************************************)
(* Properties of the report.                                               *)
(***************************************************************************)
\* the end of a success record, in seconds
EndOf(r) == r.request_start + r.e2e_latency_ms \div MsPerSecond

\* C15: the reported throughput is the number of success records over the
\* span from the earliest start to the latest end among them, and 0 when
\* that span is not positive; failed requests are not counted.
C15_ThroughputOverSpan ==
    report.kind = "output" =>
        /\ report.total_requests = TotalExpected(args) - failed
        /\ \E i, j \in 1..Len(raw_results) :
              /\ \A k \in 1..Len(raw_results) :
                    /\ raw_results[i].request_start <= raw_results[k].request_start
                    /\ EndOf(raw_results[j]) >= EndOf(raw_results[k])
              /\ LET span == EndOf(raw_results[j]) - raw_results[i].request_start
                 IN IF span > 0
                    THEN report.throughput_rps.num * span
                            = report.total_requests * report.throughput_rps.den
                    ELSE report.throughput_rps.num = 0

\* two one-second requests back to back in a run of four of which two
\* failed: 1 request/s
C15_Witness ==
    /\ report.kind = "output"
    /\ failed = 2
    /\ raw_results = <<[request_start |-> 0, e2e_latency_ms |-> MsPerSecond],
                       [request_start |-> 1, e2e_latency_ms |-> MsPerSecond]>>
    /\ report.throughput_rps = [num |-> 2, den |-> 2]

\* C19 (as claimed): a run that ended with more than a tenth of its expected
\* requests failed has printed the warning.
C19_HighFailureRateWarns ==
    /\ report.kind # "none"
    /\ 10 * (TotalExpected(args) - Len(raw_results)) > TotalExpected(args)
    => report.warning

(***************************************************************************)
(* Properties of the aggregator.                                           *)
(***************************************************************************)
\* the quotient q is the whole number v
Equals(q, v) == q.num = v * q.den

\* C16 (as claimed): for ten values or more with a positive mean, the
\* assessment is bimodal exactly when stdev / mean exceeds the threshold.
C16_BimodalIffCvExceeds ==
    /\ bimodality.called
    /\ Len(values) >= MinBimodalSamples
    /\ Sum(values) > 0
    => (bimodality.bimodal <=> CvExceeds(values, ThresholdRatio))

\* C17: fewer than ten values, whatever their spread, are assessed unimodal,
\* with an empty slow cluster and all the values as the fast cluster.
C17_FewSamplesUnimodal ==
    bimodality.called /\ Len(values) < MinBimodalSamples =>
        /\ ~bimodality.bimodal
        /\ bimodality.phase_a = <<>>
        /\ bimodality.phase_b = values

\* nine values that would split into two clusters were assessed
C17_Witness ==
    /\ bimodality.called
    /\ Len(values) = MinBimodalSamples - 1
    /\ CvExceeds(values, ThresholdRatio)
    /\ \E i, j \in 1..Len(values) : values[i] < values[j]
    /\ Slow(values) # <<>>

RoundSuccesses(r) == {t \in RoundTasks(r) : rec[t] = SuccessRec}

\* the calls of round r that returned an error record
RoundErrors(r) == {t \in RoundTasks(r) : HasError(rec[t])}

\* C22, one step: all_results holds success records only; the gather of a
\* round appends one record per success of the round and counts every call
\* of the round as a success or as an error; a serial pass appends its
\* record exactly when it is a success record; no other step changes
\* all_results; and when the run returns, the calls issued are the expected
\* count num_iterations * (concurrency if concurrency > 1 else 1), in serial
\* mode each of them accounted for by a success in all_results or by an
\* error record.
C22_ResultStep ==
    /\ \A i \in 1..Len(all_results') : all_results'[i] = SuccessRec
    /\ IF dpc = "gather" /\ dpc' = "sleep"
       THEN /\ Len(all_results') =
                  Len(all_results) + Cardinality(RoundSuccesses(round_num))
            /\ successes' = Cardinality(RoundSuccesses(round_num))
            /\ errors' = Cardinality(RoundErrors(round_num))
            /\ successes' + errors' = Concurrency
       ELSE IF dpc = "serial_await" /\ dpc' \in {"serial", "serial_sleep", "done"}
       THEN /\ rec[SerialCall(round_num)] \in ErrorRecs \cup {SuccessRec}
            /\ Len(all_results') = Len(all_results) +
                  (IF rec[SerialCall(round_num)] = SuccessRec THEN 1 ELSE 0)
       ELSE all_results' = all_results
    /\ dpc' = "done" =>
          /\ ncreated' = TotalExpected(args)
          /\ round_num' = args.num_iterations
          /\ Len(all_results') <= ncreated'
          /\ args.concurrency = 1 =>
                Len(all_results') +
                  Cardinality({t \in SerialIds : HasError(rec'[t])}) = ncreated'

\* C22: after any serial or concurrent measurement run the result set holds
\* exactly the successful requests, each once and no error record, and
\* successes + failures = requests issued = the expected count of the
\* failure ratio.
C22_ResultSetIsTheSuccesses == [][C22_ResultStep]_vars

\* a run has returned with one success among its failures
C22_Witness ==
    /\ dpc = "done"
    /\ Len(all_results) = 1
    /\ ncreated = TotalExpected(args)

\* the calls of run_warmup and run_serial_benchmark, in the order of issue
Sequential ==
    WarmupIds \cup (IF args.concurrency = 1 THEN SerialIds ELSE {})

\* call t is issued before call u
IssuedBefore(t, u) ==
    \/ t \in WarmupIds /\ u \in SerialIds
    \/ t \in WarmupIds /\ u \in WarmupIds /\ t < u
    \/ t \in SerialIds /\ u \in SerialIds /\ t < u

\* C23: in run_warmup and run_serial_benchmark at most one request is in
\* flight at any instant, and a request is issued only after every earlier
\* one has resolved.
C23_OneAtATime ==
    /\ Cardinality({t \in Sequential : tpc[t] \notin {"none", "resolved"}}) <= 1
    /\ \A t \in Sequential, u \in Sequential :
          IssuedBefore(t, u) /\ tpc[u] # "none" => tpc[t] = "resolved"

\* the second measured request of a serial run is in flight after the first
\* one returned an error record
C23_Witness ==
    /\ args.concurrency = 1
    /\ dpc = "serial_await"
    /\ tpc[SerialCall(1)] = "read"
    /\ HasError(rec[SerialCall(0)])

(***************************************************************************)
(* The record of one call of measure_streaming (SpecMeasure).              *)
(***************************************************************************)
\* C21: a 200 response whose stream ends, by "data: [DONE]" or by the end
\* of the stream, without a line carrying non-empty text gives the error
\* record "No tokens generated" and never a success record.
C21_NoTokensIsAnError ==
    /\ mpc = "returned" /\ frame \in {"done", "eof"} /\ token_times = <<>>
          => result.kind = ErrNoTokens
    /\ result.kind = SuccessRec => token_times # <<>>

\* the stream of a 200 response ended with [DONE] and no text was read
C21_Witness ==
    /\ mpc = "returned"
    /\ frame = "done"
    /\ token_times = <<>>
    /\ result.kind = ErrNoTokens

\* C29: in every success record start <= t1 <= ... <= tn <= end, so that
\* TTFT >= 0, every inter-token interval >= 0 and E2E >= TTFT, and the
\* tokens counted are the timestamps recorded, at least one.
C29_SuccessTimesOrdered ==
    result.kind = SuccessRec =>
        /\ Len(token_times) >= 1
        /\ result.completion_tokens = Len(token_times)
        /\ result.request_start <= token_times[1]
        /\ \A i \in 1..(Len(token_times) - 1) :
              token_times[i + 1] - token_times[i] >= 0
        /\ token_times[Len(token_times)] * MsPerSecond
              <= result.request_start * MsPerSecond + result.e2e_latency_ms
        /\ result.ttft_ms >= 0
        /\ result.ttft_ms = (token_times[1] - result.request_start) * MsPerSecond
        /\ result.e2e_latency_ms >= result.ttft_ms

\* a success record of two tokens with time passing before, between and
\* after them
C29_Witness ==
    /\ result.kind = SuccessRec
    /\ Len(token_times) = 2
    /\ request_start < token_times[1]
    /\ token_times[1] < token_times[2]
    /\ token_times[2] < now

(***************************************************************************)
(* The percentiles of the aggregator (SpecAggregator).                     *)
(***************************************************************************)
\* C28: compute_percentiles of no values returns 0 for p50, p95, p99, the
\* mean, the standard deviation, the minimum and the maximum, and no raw
\* values.
C28_EmptySampleIsAllZero ==
    percentiles.called /\ values = <<>> =>
        /\ percentiles.p50 = Zero
        /\ percentiles.p95 = Zero
        /\ percentiles.p99 = Zero
        /\ percentiles.mean = Zero
        /\ percentiles.variance = Zero
        /\ percentiles.min = 0
        /\ percentiles.max = 0
        /\ percentiles.raw = <<>>

\* the percentiles of no values were computed
C28_Witness ==
    /\ percentiles.called
    /\ values = <<>>
    /\ percentiles.raw = <<>>

\* cut point k of the inclusive method over the sorted values x: with
\* k * (n - 1) = 100 * j + r and 0 <= r < 100, q = x[j] + r * (x[j+1] - x[j]) / 100
\* (x counted from 0)
IsInclusiveCut(q, x, k) ==
    \E j \in 0..(Len(x) - 2), r \in 0..(Centiles - 1) :
        /\ k * (Len(x) - 1) = Centiles * j + r
        /\ q.num * Centiles
              = q.den * (Centiles * x[j + 1] + r * (x[j + 2] - x[j + 1]))

\* C30: for two values or more, p50, p95 and p99 are the cut points 50, 95
\* and 99 of the inclusive linear-interpolation method over the sorted
\* values.
C30_PercentilesInterpolate ==
    percentiles.called /\ Len(values) >= 2 =>
        /\ IsInclusiveCut(percentiles.p50, Sorted(values), 50)
        /\ IsInclusiveCut(percentiles.p95, Sorted(values), 95)
        /\ IsInclusiveCut(percentiles.p99, Sorted(values), 99)

\* the percentiles of two different values lie between the two and are no
\* value of the list
C30_Witness ==
    /\ percentiles.called
    /\ Len(values) = 2
    /\ \A i \in 1..Len(values) : ~Equals(percentiles.p50, values[i])
    /\ \A i \in 1..Len(values) : ~Equals(percentiles.p95, values[i])

(***************************************************************************)
(* The bodies the proxy sends to the two stages (SpecTimed).               *)
(***************************************************************************)
\* the hand-off field of the body sent to stage 2: what stage 1 returned
\* when it returned a token, none otherwise
HandOff(r) == IF Truthy(r.prefill_kv) THEN r.prefill_kv ELSE Absent

\* C24 (as claimed): the body sent to stage 2 equals the inbound body field
\* for field, max_tokens and stream included, with the hand-off field added
\* exactly when stage 1 returned one.
C24_Stage2BodyIsInbound ==
    \A q \in DOMAIN req :
        req[q].s2calls >= 1 =>
            /\ req[q].s2body.prompt = req[q].inbound.prompt
            /\ req[q].s2body.max_tokens = req[q].inbound.max_tokens
            /\ req[q].s2body.stream = req[q].inbound.stream
            /\ req[q].s2body.kv_transfer_params = HandOff(req[q])

\* C24 (amended): the body sent to stage 2 equals the inbound body in every
\* field but stream, which is always true, with the hand-off field added
\* exactly when stage 1 returned a non-empty one; max_tokens = 1,
\* stream = false and the retain-state directive of stage 1 never appear
\* in it unless max_tokens = 1 is the inbound value.
C24_Stage2BodyIsInboundStreamed ==
    \A q \in DOMAIN req :
        req[q].s2calls >= 1 =>
            /\ req[q].s1status = 200
            /\ req[q].s2body.prompt = req[q].inbound.prompt
            /\ req[q].s2body.max_tokens = req[q].inbound.max_tokens
            /\ req[q].s2body.stream = "true"
            /\ req[q].s2body.kv_transfer_params = HandOff(req[q])
            /\ req[q].s2body.kv_transfer_params # "directive"

\* a request that did not ask for a stream, with max_tokens above 1, was
\* sent to stage 2 with the token stage 1 returned
C24_Witness ==
    \E q \in DOMAIN req :
        /\ req[q].s2calls >= 1
        /\ req[q].inbound.stream = "false"
        /\ req[q].inbound.max_tokens > 1
        /\ Truthy(req[q].prefill_kv)
        /\ req[q].s2body.kv_transfer_params = req[q].prefill_kv

\* C25: the body sent to stage 1 is the inbound body with max_tokens = 1,
\* stream = false and the retain-state directive, whatever the inbound
\* max_tokens and stream; the inbound body the handler holds is unchanged.
C25_Stage1BodyIsRewrittenCopy ==
    \A q \in DOMAIN req :
        req[q].s1calls >= 1 =>
            /\ req[q].s1body.prompt = req[q].inbound.prompt
            /\ req[q].s1body.max_tokens = 1
            /\ req[q].s1body.stream = "false"
            /\ req[q].s1body.kv_transfer_params = "directive"
            /\ req[q].request_data = req[q].inbound

\* a streaming request with max_tokens above 1 was sent to stage 1
C25_Witness ==
    \E q \in DOMAIN req :
        /\ req[q].s1calls >= 1
        /\ req[q].inbound.stream = "true"
        /\ req[q].inbound.max_tokens > 1
        /\ req[q].s1body.max_tokens = 1
        /\ req[q].request_data.max_tokens > 1

(***************************************************************************)
(* The metrics-store sink (SpecReport).                                    *)
(***************************************************************************)
\* the sink was not installed, not configured, or a step of it failed
SinkFailed == sink \in {"not_installed", "not_configured"} \cup SinkSteps

\* C26: when the sink is not installed, not configured or fails at any
\* step, log_to_mlflow returns no run id without raising, and the run goes
\* on to its end with the output file as it was written before the call.
C26_SinkFailureKeepsTheRun ==
    /\ rpc # "aborted"
    /\ rpc = "sink" => output_file = "output"
    /\ SinkFailed =>
          /\ rpc \in {"finish", "done"}
          /\ run_id = NoRunId
          /\ output_file = "output"

\* the run has ended after the sink failed while storing the artifact
C26_Witness ==
    /\ rpc = "done"
    /\ sink = "log_artifact"
    /\ run_id = NoRunId
    /\ output_file = "output"

(***************************************************************************)
(* The timing headers of a streaming response (SpecTimed).                 *)
(***************************************************************************)
\* the value sent under a header name, if one was sent
Sent(r, n) == {h.value : h \in {g \in r.sent_headers : g.name = n}}

\* C27: a streaming response that has been started, and so every one on
\* which a chunk has been relayed or is about to be, carries both timing
\* headers, the stage-1 duration and the extraction duration in
\* milliseconds, neither negative.
C27_TimingHeadersBeforeFirstByte ==
    \A q \in DOMAIN req :
        /\ WantsStream(req[q].request_data)
        /\ req[q].status = 200 \/ req[q].written # <<>> \/ req[q].pc = "write"
        => /\ Sent(req[q], "X-Proxy-Prefill-Time")
                 = {Format2f((req[q].t1 - req[q].t0) * MsPerSecond)}
           /\ Sent(req[q], "X-Proxy-KV-Extract-Time")
                 = {Format2f((req[q].t2 - req[q].t1) * MsPerSecond)}
           /\ \A h \in req[q].sent_headers :
                 h.value.sign = "" /\ h.value.hundredths >= 0
           /\ req[q].t0 <= req[q].t1 /\ req[q].t1 <= req[q].t2

\* the first chunk of a streaming response is about to be written, after a
\* stage 1 that took a second and an extraction that took one more
C27_Witness ==
    \E q \in DOMAIN req :
        /\ req[q].pc = "write"
        /\ req[q].written = <<>>
        /\ req[q].t1 - req[q].t0 = 1
        /\ req[q].t2 - req[q].t1 = 1
        /\ Cardinality(req[q].sent_headers) = 2

(***************************************************************************)
(* The clusters and the order of the summary (SpecAggregator).             *)
(***************************************************************************)
\* how often v occurs in the list vs
Count(vs, v) == Cardinality({i \in 1..Len(vs) : vs[i] = v})

\* C31: when analyze_bimodality reports bimodal, the slow cluster is the
\* values above the median and the fast cluster the values at or below it,
\* in the order of the sample; both are non-empty, together they are the
\* sample (value by value, and in size), every slow value exceeds every
\* fast value, and each cluster's summary is compute_percentiles of it.
C31_ClustersPartitionAtMedian ==
    bimodality.called /\ bimodality.bimodal =>
        LET a == bimodality.phase_a
            b == bimodality.phase_b
        IN /\ a = SelectSeq(values, LAMBDA v : 2 * v > TwiceMedian(values))
           /\ b = SelectSeq(values, LAMBDA v : 2 * v <= TwiceMedian(values))
           /\ a # <<>>
           /\ b # <<>>
           /\ Len(a) + Len(b) = Len(values)
           /\ \A v \in SampleValues :
                 Count(a, v) + Count(b, v) = Count(values, v)
           /\ \A i \in 1..Len(a), j \in 1..Len(b) : a[i] > b[j]
           /\ bimodality.phase_a_stats = compute_percentiles(a)
           /\ bimodality.phase_b_stats = compute_percentiles(b)

\* a sample was split into a smaller slow cluster and a larger fast one
C31_Witness ==
    /\ bimodality.called
    /\ bimodality.bimodal
    /\ Len(bimodality.phase_a) >= 1
    /\ Len(bimodality.phase_a) < Len(bimodality.phase_b)

\* a <= b, for quotients with positive denominators
Leq(a, b) == a.num * b.den <= b.num * a.den

InWarmup == dpc \in {"warmup", "warmup_await", "warmup_sleep"}

\* the calls run_warmup has made when its loop index is i at position pc
WarmupIssued(i, pc) ==
    {WarmupCall(j) : j \in 0..(IF pc = "warmup" THEN i - 1 ELSE i)}

C34_WarmupStep ==
    /\ InWarmup' =>
          /\ \A t \in TaskIds : tpc'[t] = "none"
          /\ ncreated' = 0
          /\ all_results' = <<>>
          /\ successes' = 0
          /\ errors' = 0
          /\ {w \in WarmupIds : tpc'[w] # "none"} = WarmupIssued(round_num', dpc')
    /\ (\E t \in TaskIds : tpc'[t] # "none") =>
          \A w \in WarmupIds : tpc'[w] = "resolved" /\ rec'[w] = NoRec
    /\ InWarmup /\ ~InWarmup' /\ dpc' # "aborted" =>
          /\ {w \in WarmupIds : tpc[w] = "resolved"} = WarmupIds
          /\ Cardinality(WarmupIds) = WarmupCount
          /\ round_num = WarmupCount - 1
    /\ ~InWarmup => \A w \in WarmupIds : tpc'[w] = tpc[w]
    /\ \A w \in WarmupIds :
          rec[w] # NoRec /\ rec'[w] = NoRec =>
             /\ rec[w] \in ErrorRecs \cup {SuccessRec}
             /\ all_results' = all_results
             /\ successes' = successes
             /\ errors' = errors
             /\ ncreated' = ncreated

\* C34: while run_warmup runs no measured request has been issued and the
\* result list and the counters are untouched; run_warmup issues one call
\* per pass and returns only after pass count - 1, with all count calls
\* resolved, whatever records they returned; a measured request is issued
\* only when every warm-up call has resolved and its record has been
\* dropped, and the step that drops a warm-up record, success or error,
\* changes neither the results nor any count.
C34_WarmupPrecedesMeasurement == [][C34_WarmupStep]_vars

\* the first measured requests of a concurrent run are in flight, every
\* warm-up call has resolved and nothing is in the results
C34_Witness ==
    /\ args.concurrency > 1
    /\ dpc = "gather"
    /\ \E t \in RoundTasks(0) : tpc[t] = "read"
    /\ \A w \in WarmupIds : tpc[w] = "resolved"
    /\ all_results = <<>>


(***************************************************************************)
(* The admission gate of run_concurrent_benchmark (Spec).                  *)
(***************************************************************************)
\* tasks created whose first step, semaphore.acquire(), has not run
NotStarted == {t \in TaskIds : tpc[t] = "created"}

\* C36: no task of run_concurrent_benchmark is ever blocked in acquire() or
\* has waited there: every task that has not yet run its acquire() has a
\* free permit left for it, each round creates exactly `concurrency` tasks
\* before the driver awaits them, and every task that is created and not
\* resolved belongs to the round being awaited, so all of a round's
\* requests can be in flight at once.
C36_NoTaskBlocksAtGate ==
    /\ \A t \in TaskIds : tpc[t] # "gate" /\ waited[t] = 0
    /\ Cardinality(NotStarted) <= semaphore
    /\ Cardinality(NotStarted) + Cardinality(Holders) <= Concurrency
    /\ dpc \in {"gather", "sleep"} =>
          /\ ncreated = (round_num + 1) * Concurrency
          /\ Cardinality(RoundTasks(round_num)) = Concurrency
          /\ \A t \in RoundTasks(round_num) : tpc[t] # "none"
    /\ \A t \in TaskIds :
          tpc[t] \notin {"none", "resolved"} => t \in RoundTasks(round_num)

\* every task of a round has acquired its permit and none has an answer yet
C36_Witness ==
    /\ dpc = "gather"
    /\ semaphore = 0
    /\ \A t \in RoundTasks(round_num) : tpc[t] = "post" /\ waited[t] = 0


\* the ways a request leaves measure_with_semaphore: with a record, or by an
\* exception or a cancellation that passes through it
Exits == ErrorRecs \cup {SuccessRec, Raised}

C37_ReleaseStep ==
    /\ \A t \in TaskIds :
          /\ InIO(t) /\ tpc'[t] \notin {"post", "read"} =>
                /\ tpc'[t] = "resolved"
                /\ rec'[t] \in Exits
                /\ semaphore' = semaphore + 1
          /\ ~InIO(t) /\ tpc'[t] \in {"post", "read"} =>
                semaphore' = semaphore - 1
          /\ ~InIO(t) /\ tpc'[t] \notin {"post", "read"} /\ tpc'[t] # tpc[t] =>
                semaphore' = semaphore

C37_PermitsAddUp ==
    /\ semaphore \in 0..Concurrency
    /\ Cardinality(Holders) + semaphore = Concurrency
    /\ Holders = {} => semaphore = Concurrency
    /\ dpc \in {"create", "sleep", "done"} =>
          Holders = {} /\ semaphore = Concurrency

\* C37: the step in which a request leaves measure_with_semaphore, with a
\* success record, an HTTP, timeout or exception error record, or by
\* cancellation, gives its permit back; a task that held no permit gives
\* none back; so the permits held and the free permits add up to
\* `concurrency` in every state, and all of them are free whenever no
\* request is in flight, in particular between the rounds and at the end.
C37_PermitReleasedOnEveryExit == [][C37_ReleaseStep /\ C37_PermitsAddUp']_vars

\* a task was cancelled, its sibling still holds a permit and the other
\* permit is free
C37_Witness ==
    /\ dpc = "gather"
    /\ \E t \in RoundTasks(round_num) :
          /\ tpc[t] = "resolved"
          /\ rec[t] = Raised
          /\ \A u \in RoundTasks(round_num) \ {t} : tpc[u] = "read"
    /\ semaphore = 1


(***************************************************************************)
(* A run without a successful request (SpecReport).                        *)
(***************************************************************************)
\* every measured request has returned and none of them with a success
AllFailed ==
    /\ raw_results = <<>>
    /\ failed = TotalExpected(args)

C38_StopStep ==
    /\ AllFailed /\ report.kind = "none" /\ report'.kind # "none" =>
          /\ report'.kind = "no results"
          /\ rpc' = "done"
    /\ AllFailed =>
          /\ AllFailed'
          /\ report'.kind \in {"none", "no results"}
          /\ report'.total_requests = 0
          /\ report'.throughput_rps = [num |-> 0, den |-> 1]
          /\ rpc' \in {"measure", "done"}
          /\ output_file' = "none"
          /\ sink' = "not_called"
          /\ run_id' = "unset"
    /\ report'.kind = "no results" => raw_results' = <<>>
    /\ rpc' \in {"save", "sink", "finish"} => raw_results' # <<>>

\* C38: when every measured request has failed, the step after the last of
\* them prints the "no successful results" message and ends run_benchmark:
\* nothing of the report is computed (no total and no throughput), the
\* output file is never written, log_to_mlflow is never called and no
\* run id exists; the file and the sink are reached only with a result.
C38_AllFailedStopsRun == [][C38_StopStep]_vars

\* a concurrent run of several requests, all failed, has ended
C38_Witness ==
    /\ AllFailed
    /\ failed >= 2
    /\ report.kind = "no results"
    /\ rpc = "done"
    /\ output_file = "none"
    /\ sink = "not_called"


(***************************************************************************)
(* The committed status and the call of stage 2 (SpecTimed).               *)
(***************************************************************************)
C35_CommitStep ==
    \A q \in DOMAIN req :
       LET r == req[q]
           n == req'[q]
       IN /\ WantsStream(n.request_data) /\ n.s2calls > 0 =>
                /\ n.status = 200
                /\ n.nresp >= 1
                /\ n.sent_headers = n.headers
          /\ WantsStream(n.request_data) /\ r.status = 0 /\ n.status = 200 =>
                /\ r.pc = "prepare"
                /\ r.s2calls = 0
                /\ n.pc = "decode_wait"
                /\ n.s2calls = 1
                /\ n.s2status = 0
                /\ n.received = <<>>
          /\ r.pc = "prepare" =>
                /\ r.s2calls = 0
                /\ r.status = 0
                /\ n.pc = "error" => n.s2calls = 0
          /\ n.s2status # 0 /\ WantsStream(n.request_data) => n.status = 200

\* C35: a streaming request that awaits prepare() has not called stage 2;
\* the step in which prepare() returns, with status 200 and the headers
\* sent, is the one that goes on to the first post to stage 2, whose status
\* and lines are unknown in the state it leads to; stage 2 is never called
\* for a streaming request without a committed 200, and never when
\* prepare() fails.
C35_CommitBeforeStage2 == [][C35_CommitStep]_vars

\* the 200 of a streaming request is with the caller and stage 2 has not
\* answered
C35_Witness ==
    \E q \in DOMAIN req :
        /\ WantsStream(req[q].request_data)
        /\ req[q].pc = "decode_wait"
        /\ req[q].status = 200
        /\ req[q].s2calls = 1
        /\ req[q].s2status = 0


(***************************************************************************)
(* Requests side by side (SpecShared).                                     *)
(***************************************************************************)
C32_OwnStep ==
    \A q \in ManyReqIds :
       LET r == req[q]
           n == req'[q]
       IN /\ n # r => \A u \in ManyReqIds \ {q} : req'[u] = req[u]
          /\ n.prefill_kv # r.prefill_kv =>
                r.pc = "prefill_json" /\ n.pc = "extract"
          /\ n.s2calls >= 1 =>
                /\ n.kv_transfer_params = n.prefill_kv
                /\ n.s2body.kv_transfer_params = HandOff(n)
                /\ n.s2body.prompt = n.inbound.prompt
          /\ r.s2calls >= 1 =>
                /\ n.s2body = r.s2body
                /\ n.prefill_kv = r.prefill_kv
          /\ n.t0 # r.t0 => r.pc = "idle" /\ n.t0 = now
          /\ n.t1 # r.t1 => r.pc = "prefill_json" /\ n.t1 = now
          /\ n.t2 # r.t2 => r.pc = "extract" /\ n.t2 = now
          /\ n.headers # {} => n.headers = TimingHeaders(n)
          /\ n.sent_headers \in {{}, n.headers}

\* C32: with several requests in flight, a step of one handler changes
\* nothing of another request; the token of a request is set only by the
\* answer of its own stage 1 and is what its call of stage 2 carries,
\* unchanged from then on; its three clock readings are taken in its own
\* steps, and its timing headers are made of them alone.
C32_HandOffAndTimingAreOwn == [][C32_OwnStep]_vars

\* two requests are being decoded at once with different tokens and
\* different timing headers
C32_Witness ==
    /\ req[1].pc = "decode_read"
    /\ req[2].pc = "decode_read"
    /\ req[1].s2body.kv_transfer_params = "tokA"
    /\ req[2].s2body.kv_transfer_params = "tokB"
    /\ req[1].sent_headers # {}
    /\ req[2].sent_headers # {}
    /\ req[1].sent_headers # req[2].sent_headers


(***************************************************************************)
(* The answer to a request that does not stream (SpecFinal).               *)
(***************************************************************************)
\* the frames the answer can come from: "data: " frames that parse, the end
\* marker excepted
RECURSIVE LastFrame(_)
LastFrame(chunks) ==
    IF chunks = <<>> THEN None
    ELSE LET line == chunks[Len(chunks)]
         IN IF Decodes(line) /\ IsData(line) /\ Parses(line)
               /\ line # "data: [DONE]"
            THEN Loads(line)
            ELSE LastFrame(SubSeq(chunks, 1, Len(chunks) - 1))

\* C39 (as claimed): a request that does not stream is sent to stage 2 with
\* stream = true, nothing goes to the caller while the lines are collected,
\* and when the stream ends the caller gets one answer with status 200: the
\* JSON of the last parseable "data: " frame other than "data: [DONE]", or
\* the body {"error": "No valid response"} when there is no such frame.
C39_AnswerIsLastFrame ==
    \A q \in DOMAIN req :
        ~WantsStream(req[q].request_data) =>
            /\ req[q].s2calls >= 1 => req[q].s2body.stream = "true"
            /\ req[q].pc = "decode_read" =>
                  /\ req[q].nresp = 0
                  /\ req[q].collected = req[q].received
            /\ req[q].pc = "done" =>
                  /\ req[q].nresp = 1
                  /\ req[q].status = 200
                  /\ req[q].returned = "json200"
                  /\ req[q].collected = req[q].received
                  /\ req[q].final_result =
                        IF LastFrame(req[q].collected) = None
                        THEN NoValidResponse
                        ELSE LastFrame(req[q].collected)


(***************************************************************************)
(* Every request ends (SpecLive).                                          *)
(***************************************************************************)
\* C33: a request whose handler runs, whether it awaits the inbound body,
\* stage 1, the caller's prepare or write, or stage 2 and its stream,
\* eventually is at DONE or at ERROR, provided each await of the handler
\* ends (the backend answers or the deadline of the call expires, and the
\* caller takes what is written).
C33_EveryRequestEnds ==
    \A q \in ReqIds :
        InFlight(req[q]) ~> req[q].pc \in {"done", "error"}

\* a streaming request ended in ERROR when the stream of stage 2 broke
\* after MaxChunks lines had been relayed
C33_Witness ==
    \E q \in ReqIds :
        /\ WantsStream(req[q].request_data)
        /\ req[q].pc = "error"
        /\ req[q].fault = "stage2"
        /\ Len(req[q].received) = MaxChunks
        /\ req[q].written = req[q].received

====
